---- MODULE Spec2Model ----
(***************************************************************************)
(* Model of api/chat-rooms.js (ryOS chat rooms backend): the token         *)
(* manager, room presence, the per-room message log, the two rate limiters *)
(* and the rooms-updated events, over a model of the Redis key space the   *)
(* handlers share.                                                         *)
(*                                                                         *)
(* Time is the wall clock: now is its whole seconds and ms the             *)
(* milliseconds within the second, so Date.now() is now * 1000 + ms.  Only *)
(* SpecInterval and SpecRevoke move ms; elsewhere every millisecond        *)
(* quantity of the code (expiredAt, gracePeriodEnd) is a multiple of 1000  *)
(* and kept in seconds.                                                    *)
(*                                                                         *)
(* One action is one request, run to completion: the router's              *)
(* authentication gate followed by the handler.  SpecLog, SpecRecent,      *)
(* SpecRate, SpecFailOpen, SpecEnsure, SpecRace, SpecRevoke, SpecDouble    *)
(* and SpecSignup split a request at its awaits, where another request may *)
(* run.  Outside SpecRate and SpecFailOpen the router's generic rate       *)
(* limiter (checkRateLimit) is left out: it answers 429 before the gate    *)
(* and touches only its own rl:* counter.                                  *)
(***************************************************************************)
EXTENDS Integers, Sequences, FiniteSets, TLC

-----------------------------------------------------------------------------
(* Program constants (seconds)                                             *)

USER_TTL_SECONDS == 7776000

USER_EXPIRATION_TIME == 7776000

ROOM_PRESENCE_TTL_SECONDS == 86400

TOKEN_GRACE_PERIOD == 86400 * 365

PASSWORD_MIN_LENGTH == 8

MAX_USERNAME_LENGTH == 30

MIN_USERNAME_LENGTH == 3

MAX_MESSAGE_LENGTH == 1000

AUTH_TOKEN_PREFIX == "chat:token:"

PASSWORD_HASH_PREFIX == "chat:password:"

CHAT_USERS_PREFIX == "chat:users:"

CHAT_ROOM_PREFIX == "chat:room:"

CHAT_MESSAGES_PREFIX == "chat:messages:"

CHAT_ROOM_PRESENCE_PREFIX == "chat:presence:"

CHAT_BURST_PREFIX == "rl:chat:b:"

CHAT_BURST_SHORT_WINDOW_SECONDS == 10

CHAT_BURST_SHORT_LIMIT == 3

CHAT_BURST_LONG_WINDOW_SECONDS == 60

CHAT_BURST_LONG_LIMIT == 20

CHAT_MIN_INTERVAL_SECONDS == 2

RATE_LIMIT_WINDOW_SECONDS == 60

RATE_LIMIT_ATTEMPTS == 10

RATE_LIMIT_PREFIX == "rl:"

\* redis.ltrim(key, 0, 99)
LTRIM_STOP == 99

-----------------------------------------------------------------------------
(* Bounds of the model                                                     *)

\* tokens generateAuthToken may hand out in one behaviour of SpecTokens and
\* of SpecLapse
MaxTokens == 3

MaxLapseTokens == 2

\* requests of the token manager arrive a * StepDays days + c grace periods
\* after the start, a <= MaxShortSteps, c <= MaxLongSteps
StepDays == 45

MaxShortSteps == 2

MaxLongSteps == 1

DAY == 24 * 3600

\* rooms created in one behaviour of SpecRooms
MaxRooms == 2

\* ids (of rooms and of messages) generateId hands out in one behaviour of
\* SpecMessages
MaxIds == 3

\* chat requests arrive a * CHAT_MIN_INTERVAL_SECONDS seconds + b half days
\* after the start, a <= MaxShortTicks, b <= MaxHalfDays
MaxShortTicks == 1

MaxHalfDays == 2

\* how far above its limit the short-window burst counter is followed
MaxOverLimit == 1

\* requests that may be between two of their awaits at once
MaxInFlight == 2

\* ids generateId hands out in one behaviour of SpecLog: one room and the
\* messages that fill its log past the length ltrim keeps
MaxLogIds == 102

\* the history sendLog keeps the latest MaxSendLog sendMessage requests
MaxSendLog == 3

\* SpecBurst: the clock reaches MaxBurstSteps * CHAT_MIN_INTERVAL_SECONDS
\* seconds; the room and the stored messages take MaxBurstIds ids
MaxBurstSteps == 6

MaxBurstIds == 5

\* SpecInterval: the clock reaches MaxIntervalSeconds seconds; the room and
\* the stored messages take MaxIntervalIds ids
MaxIntervalSeconds == 3

MaxIntervalIds == 3

\* SpecRate: the clock reaches MaxRateWindows * RATE_LIMIT_WINDOW_SECONDS
\* seconds; the handlers hand out MaxRateTokens tokens
MaxRateWindows == 1

MaxRateTokens == 1

\* SpecFailOpen: the room and the stored messages take MaxFailIds ids; of
\* the createUser requests, MaxFailAllowed allowed ones are followed
MaxFailIds == 2

MaxFailAllowed == 2

\* SpecPublish: the rooms and the stored messages take MaxPublishIds ids
MaxPublishIds == 3

\* SpecVisible: the rooms take MaxVisibleIds ids
MaxVisibleIds == 2

\* SpecEnsure: MaxEnsureCalls calls of ensureUserExists, within
\* MaxEnsureSeconds seconds
MaxEnsureCalls == 3

MaxEnsureSeconds == 2

\* SpecDelete: the rooms and the messages take MaxDeleteIds ids
MaxDeleteIds == 5

\* SpecSwitch: at most MaxSwitchRooms rooms are created
MaxSwitchRooms == 3

\* SpecContent: the rooms and the messages take MaxContentIds ids
MaxContentIds == 3

\* SpecRace: the requests of one behaviour that run await by await, and the
\* rooms it creates
MaxRaceCalls == 2

MaxRaceRooms == 1

\* SpecRevoke: the tokens handed out, and the requests that run await by
\* await
MaxRevokeTokens == 2

MaxRevokeCalls == 2

\* SpecDouble: the room and the stored messages take MaxDoubleIds ids
MaxDoubleIds == 4

\* SpecSignup: the createUser requests of one behaviour, and the tokens
\* handed out in it
MaxSignupCalls == 3

MaxSignupTokens == 2

-----------------------------------------------------------------------------
(* Inputs                                                                  *)

\* "" is the missing (null / undefined / empty) string of a request.
NoName == ""

NoToken == ""

\* Usernames a request to the token manager may carry.  All match
\* USERNAME_REGEX except "al"; "badword1" is on the profanity filter's
\* blacklist (filter.addWords).
Names == {"alice", "Alice", "bob", "al", "badword1"}

\* the admin, and names that occur only in the member list of a room
ADMIN == "ryo"

MemberOnlyNames == {"carol", "x:bob"}

\* String.prototype.toLowerCase over Names.
ToLower(n) == IF n = "Alice" THEN "alice" ELSE n

\* String.prototype.length over Names.
NameLen(n) ==
  CASE n = "alice" -> 5
    [] n = "Alice" -> 5
    [] n = "bob" -> 3
    [] n = "al" -> 2
    [] n = "badword1" -> 8
    [] n = "ryo" -> 3
    [] n = "carol" -> 5
    [] n = "x:bob" -> 5
    [] OTHER -> 0

\* the part of n after its last ":" (n.split(":") and its last element)
LastPart(n) == IF n = "x:bob" THEN "bob" ELSE n

\* USERNAME_REGEX.test(n): a letter followed by 2..29 letters, digits or
\* single separators.  Of the names of the model "x:bob" has a character
\* outside the class; for the others the length decides.
USERNAME_REGEX(n) ==
  /\ n \in Names \cup {ADMIN} \cup MemberOnlyNames
  /\ LastPart(n) = n
  /\ NameLen(n) >= 3
  /\ NameLen(n) <= 30

\* assertValidUsername does not throw
assertValidUsername(n) == USERNAME_REGEX(n)

\* filter.isProfane over Names
isProfane(n) == n = "badword1"

\* the spelling of its username the client of each user sends once the user
\* exists
ClientNames == {"Alice", "bob"}

\* the usernames of the one user whose tokens are followed over time
LapseNames == {"alice", "Alice", "al"}

\* The 64 hex digit strings generateAuthToken returns, in the order of
\* generation; crypto.randomBytes never repeats one within a behaviour.
TokenPool == <<"t1", "t2", "t3", "t4", "t5", "t6">>

Tokens == {TokenPool[i] : i \in 1..Len(TokenPool)}

NoPassword == ""

\* "password1" and "short" are the passwords users choose; "password2" is a
\* guess at the password of an existing user
Passwords == {"password1", "short"}

Guesses == {"password2"}

PasswordLen(p) == IF p = "short" THEN 5 ELSE 9

\* bcrypt.hash, a black box: injective on the password.
hashPassword(p) == <<"bcrypt", p>>

\* bcrypt.compare
verifyPassword(p, hash) == hash = hashPassword(p)

-----------------------------------------------------------------------------
(* State                                                                   *)

VARIABLES
  kv,       \* Redis: key -> [val, exp, ms]; the key expires at second exp
            \* and ms milliseconds
  now,      \* the wall clock, seconds
  ms,       \* the milliseconds of the wall clock within its second
  nTokens,  \* tokens generated so far
  nIds,     \* ids generated so far (rooms and messages)
  resp,     \* the response of the request that produced this state, and
            \* whether a store command of a rate limiter threw in that step
            \* (failed) and whether a publish call did (unpublished)
  tokLog,   \* history: what happened to each token handed out
  presLog,  \* history: when each presence entry was last set or refreshed
  inflight, \* the requests between two of their awaits: process -> locals
  sendLog,  \* history: when the latest sendMessage requests arrived
  rateLog   \* history: the requests checkRateLimit allowed in each window

vars ==
  <<kv, now, ms, nTokens, nIds, resp, tokLog, presLog, inflight, sendLog,
    rateLog>>

\* exp of a key stored without TTL
NoExpiry == 0 - 1

-----------------------------------------------------------------------------
(* Redis commands, as functions from a key space to a key space.  A key    *)
(* whose exp has passed is removed when the clock advances (Tick), so a    *)
(* key space never holds an expired key.                                   *)

EXISTS(s, k) == k \in DOMAIN s

GET(s, k) == s[k].val

Put(s, k, v, e) ==
  [x \in DOMAIN s \cup {k} |->
     IF x = k
     THEN [val |-> v, exp |-> e, ms |-> IF e = NoExpiry THEN 0 ELSE ms]
     ELSE s[x]]

\* redis.set(k, v)
SET(s, k, v) == Put(s, k, v, NoExpiry)

\* redis.set(k, v, { ex: ttl })
SETEX(s, k, v, ttl) == Put(s, k, v, now + ttl)

\* redis.setnx(k, v)
SETNX(s, k, v) == IF EXISTS(s, k) THEN s ELSE SET(s, k, v)

\* redis.expire(k, ttl)
EXPIRE(s, k, ttl) ==
  IF EXISTS(s, k) THEN [s EXCEPT ![k].exp = now + ttl, ![k].ms = ms] ELSE s

\* redis.incr(k): a missing key counts from 0 and gets no TTL
INCR(s, k) ==
  IF EXISTS(s, k) THEN [s EXCEPT ![k].val = @ + 1] ELSE SET(s, k, 1)

\* redis.del(...keys)
DEL(s, K) == [x \in DOMAIN s \ K |-> s[x]]

\* the keys of s that are live at second t and m milliseconds
Unexpired(s, t, m) ==
  [x \in {k \in DOMAIN s : \/ s[k].exp = NoExpiry
                            \/ s[k].exp > t
                            \/ (s[k].exp = t /\ s[k].ms > m)} |-> s[x]]

-----------------------------------------------------------------------------
(* Keys.  A key is the tuple of its prefix and its variable segments.      *)

\* getTokenKey: chat:token:{token}; the legacy single-token key
\* chat:token:{username} has the same shape.
getTokenKey(token) == <<AUTH_TOKEN_PREFIX, token>>

\* getUserTokenKey: chat:token:user:{username}:{token}
getUserTokenKey(username, token) ==
  <<"chat:token:user:", ToLower(username), token>>

\* chat:token:last:{username}
lastTokenKeyOf(username) == <<"chat:token:last:", ToLower(username)>>

\* chat:users:{username}
userKeyOf(username) == <<CHAT_USERS_PREFIX, username>>

\* chat:password:{username}
passwordKeyOf(username) == <<PASSWORD_HASH_PREFIX, ToLower(username)>>

\* SCAN match chat:token:user:{username}:*
getUserTokenPattern(s, username) ==
  {k \in DOMAIN s : Len(k) = 3 /\ k[1] = "chat:token:user:"
                     /\ k[2] = ToLower(username)}

\* SCAN match chat:token:user:*:{token}
ScanUserKeysOfToken(s, token) ==
  {k \in DOMAIN s : Len(k) = 3 /\ k[1] = "chat:token:user:" /\ k[3] = token}

-----------------------------------------------------------------------------
(* Token storage                                                           *)

\* The user record { username, lastActive }.  lastActive, a timestamp no
\* handler reads back, is left out.
UserRecord(username) == [username |-> username]

\* The value of a user-scoped token key is the timestamp of its creation,
\* which no handler compares with anything.
CreatedAt == "createdAt"

\* JSON.stringify({ token, expiredAt }) and JSON.parse of it
JSON_stringify(token, expiredAt) == <<"json", token, expiredAt>>

JSON_parse(raw) == [token |-> raw[2], expiredAt |-> raw[3]]

\* storeToken: the user-scoped key, then the token -> username mapping
storeToken(s, username, token) ==
  IF token = NoToken THEN s
  ELSE LET normalizedUsername == ToLower(username)
           s1 == SETEX(s, getUserTokenKey(normalizedUsername, token),
                       CreatedAt, USER_EXPIRATION_TIME)
       IN  SETEX(s1, getTokenKey(token), normalizedUsername,
                 USER_EXPIRATION_TIME)

\* deleteToken: the mapping, then the user-scoped key of the mapped user,
\* or every user-scoped key of the token when there was no mapping
deleteToken(s, token) ==
  IF token = NoToken THEN s
  ELSE LET tokenKey == getTokenKey(token)
           s1 == DEL(s, {tokenKey})
       IN  IF EXISTS(s, tokenKey)
           THEN DEL(s1, {getUserTokenKey(GET(s, tokenKey), token)})
           ELSE DEL(s1, ScanUserKeysOfToken(s1, token))

\* deleteAllUserTokens, part 2: the keys chat:token:{x} left after the skips
\* (user-scoped keys, chat:token:last:*, the user's own legacy key) whose
\* value is the username.  No name of the model occurs as a ":name:"
\* segment of a key of another family.
OldTokenKeysOf(s, normalizedUsername) ==
  {k \in DOMAIN s : /\ Len(k) = 2
                    /\ k[1] = AUTH_TOKEN_PREFIX
                    /\ k[2] # normalizedUsername
                    /\ ToLower(GET(s, k)) = normalizedUsername}

\* deleteAllUserTokens without its part 4, the last-token record
deleteAllUserTokens_keepsLast(s, username) ==
  LET normalizedUsername == ToLower(username)
      userTokenKeys == getUserTokenPattern(s, normalizedUsername)
      s1 == DEL(s, userTokenKeys \cup {getTokenKey(k[3]) : k \in userTokenKeys})
      oldTokenKeysToDelete == OldTokenKeysOf(s1, normalizedUsername)
      s2 == DEL(s1, oldTokenKeysToDelete)
      legacyKey == getTokenKey(normalizedUsername)
      legacyDeleted == IF EXISTS(s2, legacyKey) THEN 1 ELSE 0
      s3 == DEL(s2, {legacyKey})
  IN  [s |-> s3,
       deletedCount |-> Cardinality(userTokenKeys)
                          + Cardinality(oldTokenKeysToDelete)
                          + legacyDeleted]

\* deleteAllUserTokens: [s |-> the key space after, deletedCount |-> ...]
deleteAllUserTokens(s, username) ==
  LET normalizedUsername == ToLower(username)
      \* 1. chat:token:user:{username}:{token} and chat:token:{token}
      userTokenKeys == getUserTokenPattern(s, normalizedUsername)
      s1 == DEL(s, userTokenKeys \cup {getTokenKey(k[3]) : k \in userTokenKeys})
      \* 2. chat:token:{token} -> username without a user-scoped key
      oldTokenKeysToDelete == OldTokenKeysOf(s1, normalizedUsername)
      s2 == DEL(s1, oldTokenKeysToDelete)
      \* 3. chat:token:{username}
      legacyKey == getTokenKey(normalizedUsername)
      legacyDeleted == IF EXISTS(s2, legacyKey) THEN 1 ELSE 0
      s3 == DEL(s2, {legacyKey})
      \* 4. chat:token:last:{username}
      lastTokenKey == lastTokenKeyOf(normalizedUsername)
      lastDeleted == IF EXISTS(s3, lastTokenKey) THEN 1 ELSE 0
      s4 == DEL(s3, {lastTokenKey})
  IN  [s |-> s4,
       deletedCount |-> Cardinality(userTokenKeys)
                          + Cardinality(oldTokenKeysToDelete)
                          + legacyDeleted + lastDeleted]

\* getUserTokens: the tokens of the user-scoped keys
getUserTokens(s, username) == {k[3] : k \in getUserTokenPattern(s, username)}

\* storeLastValidToken(username, token, expiredAtMs, ttlSeconds);
\* expiredAt in seconds
storeLastValidToken(s, username, token, expiredAt, ttlSeconds) ==
  SETEX(s, lastTokenKeyOf(username), JSON_stringify(token, expiredAt),
        ttlSeconds)

\* validateAuth, path 4: the last-token record holds the token and the
\* grace period after its expiredAt has not ended
GracePathValid(s, normalizedUsername, token) ==
  LET lastTokenKey == lastTokenKeyOf(normalizedUsername)
  IN  /\ EXISTS(s, lastTokenKey)
      /\ LET parsed == JSON_parse(GET(s, lastTokenKey))
             gracePeriodEnd == parsed.expiredAt + TOKEN_GRACE_PERIOD
         IN  parsed.token = token /\ now < gracePeriodEnd

\* validateAuth(username, token, requestId, allowExpired):
\* [valid, expired, s |-> the key space after its TTL refreshes and migration]
validateAuth(s, username, token, allowExpired) ==
  IF username = NoName \/ token = NoToken
  THEN [valid |-> FALSE, expired |-> FALSE, s |-> s]
  ELSE
    LET normalizedUsername == ToLower(username)
        userTokenKey == getUserTokenKey(normalizedUsername, token)
        legacyKey == getTokenKey(normalizedUsername)
    IN  IF EXISTS(s, userTokenKey)
        THEN \* 1. user-scoped token: refresh the TTL in both formats
             [valid |-> TRUE, expired |-> FALSE,
              s |-> EXPIRE(EXPIRE(s, userTokenKey, USER_TTL_SECONDS),
                           getTokenKey(token), USER_TTL_SECONDS)]
        ELSE IF EXISTS(s, getTokenKey(token))
                /\ ToLower(GET(s, getTokenKey(token))) = normalizedUsername
        THEN \* 2. token -> username mapping: refresh and migrate
             [valid |-> TRUE, expired |-> FALSE,
              s |-> SETEX(EXPIRE(s, getTokenKey(token), USER_TTL_SECONDS),
                          userTokenKey, CreatedAt, USER_TTL_SECONDS)]
        ELSE IF EXISTS(s, legacyKey) /\ GET(s, legacyKey) = token
        THEN \* 3. legacy username -> token: refresh and migrate
             [valid |-> TRUE, expired |-> FALSE,
              s |-> SETEX(EXPIRE(s, legacyKey, USER_TTL_SECONDS),
                          userTokenKey, CreatedAt, USER_TTL_SECONDS)]
        ELSE IF allowExpired /\ GracePathValid(s, normalizedUsername, token)
        THEN \* 4. grace period
             [valid |-> TRUE, expired |-> TRUE, s |-> s]
        ELSE [valid |-> FALSE, expired |-> FALSE, s |-> s]

-----------------------------------------------------------------------------
(* History of the tokens handed out: for each one the user it was issued  *)
(* to, how it ended ("no": it did not), the second it ended at or, of one   *)
(* that has not, was issued or last passed strict validation at, and       *)
(* whether a later issuance, refresh or logout-all of the same user came   *)
(* after its end.                                                          *)

LogIssue(log, token, username) ==
  [x \in DOMAIN log \cup {token} |->
     IF x = token
     THEN [user |-> username, ended |-> "no", at |-> now,
           superseded |-> FALSE]
     ELSE log[x]]

LogTouch(log, token, username) ==
  IF /\ token \in DOMAIN log
     /\ log[token].user = ToLower(username)
     /\ log[token].ended = "no"
  THEN [log EXCEPT ![token].at = now]
  ELSE log

LogEnd(log, token, how) ==
  IF token \in DOMAIN log
  THEN [log EXCEPT ![token].ended = how, ![token].at = now,
                   ![token].superseded = FALSE]
  ELSE log

LogEndAll(log, username, how) ==
  [x \in DOMAIN log |->
     IF log[x].user = ToLower(username)
     THEN [log[x] EXCEPT !.ended = how, !.at = now, !.superseded = TRUE]
     ELSE log[x]]

\* a later issuance or refresh of the user replaces its last-token record
LogSupersede(log, username, except) ==
  [x \in DOMAIN log |->
     IF log[x].user = ToLower(username) /\ x # except
     THEN [log[x] EXCEPT !.superseded = TRUE]
     ELSE log[x]]

-----------------------------------------------------------------------------
(* Responses                                                               *)

NoError == ""

\* The response of a request: of one that hands out a token or a
\* deletedCount, the action, the user and the two; of any other, the status.
Response(action, status, username, token, deletedCount) ==
  IF status \in {200, 201} /\ (token # NoToken \/ deletedCount > 0)
  THEN [action |-> action, status |-> status, username |-> username,
        token |-> token, deletedCount |-> deletedCount, error |-> NoError,
        failed |-> FALSE, unpublished |-> FALSE]
  ELSE [action |-> "other", status |-> status, username |-> NoName,
        token |-> NoToken, deletedCount |-> 0, error |-> NoError,
        failed |-> FALSE, unpublished |-> FALSE]

NoResponse ==
  [action |-> "none", status |-> 0, username |-> NoName, token |-> NoToken,
   deletedCount |-> 0, error |-> NoError, failed |-> FALSE,
   unpublished |-> FALSE]

\* what a handler hands back: the key space, the HTTP status, a token
Out(s, status, token) == [s |-> s, status |-> status, token |-> token]

\* generateAuthToken: the next token of the pool
generateAuthToken == TokenPool[nTokens + 1]

-----------------------------------------------------------------------------
(* The router's authentication gate of POST protectedActions              *)

Gate(s, headerUsername, bodyUsername, token) ==
  IF bodyUsername # NoName /\ ToLower(bodyUsername) # ToLower(headerUsername)
  THEN [valid |-> FALSE, expired |-> FALSE, s |-> s]
  ELSE validateAuth(s,
                    IF headerUsername # NoName THEN headerUsername
                                               ELSE bodyUsername,
                    token, FALSE)

-----------------------------------------------------------------------------
(* Token handlers                                                          *)

handleCreateUser(s, originalUsername, password, authToken) ==
  IF originalUsername = NoName THEN Out(s, 400, NoToken)
  ELSE IF isProfane(originalUsername) THEN Out(s, 400, NoToken)
  ELSE IF NameLen(originalUsername) > MAX_USERNAME_LENGTH
  THEN Out(s, 400, NoToken)
  ELSE IF NameLen(originalUsername) < MIN_USERNAME_LENGTH
  THEN Out(s, 400, NoToken)
  ELSE IF password # NoPassword /\ PasswordLen(password) < PASSWORD_MIN_LENGTH
  THEN Out(s, 400, NoToken)
  ELSE
    LET username == ToLower(originalUsername)
        userKey == userKeyOf(username)
        tokenKey == getTokenKey(username)
        created == ~EXISTS(s, userKey)
        s1 == SETNX(s, userKey, UserRecord(username))
    IN  IF ~assertValidUsername(username) THEN Out(s, 400, NoToken)
        ELSE IF ~created
        THEN \* the user exists: log in when the password matches
             IF /\ password # NoPassword
                /\ EXISTS(s1, passwordKeyOf(username))
                /\ verifyPassword(password, GET(s1, passwordKeyOf(username)))
             THEN Out(SETEX(s1, tokenKey, authToken, USER_EXPIRATION_TIME),
                      200, authToken)
             ELSE Out(s1, 409, NoToken)
        ELSE
          LET s2 == IF password # NoPassword
                    THEN SET(s1, passwordKeyOf(username), hashPassword(password))
                    ELSE s1
              s3 == SETEX(s2, tokenKey, authToken, USER_EXPIRATION_TIME)
              s4 == storeToken(s3, username, authToken)
              s5 == storeLastValidToken(s4, username, authToken,
                                        now + USER_EXPIRATION_TIME,
                                        USER_EXPIRATION_TIME + TOKEN_GRACE_PERIOD)
          IN  Out(s5, 201, authToken)

handleGenerateToken(s, originalUsername, authToken) ==
  IF originalUsername = NoName THEN Out(s, 400, NoToken)
  ELSE
    LET username == ToLower(originalUsername)
        tokenKey == getTokenKey(username)
        s1 == SETEX(s, tokenKey, authToken, USER_EXPIRATION_TIME)
        s2 == storeToken(s1, username, authToken)
        s3 == storeLastValidToken(s2, username, authToken,
                                  now + USER_EXPIRATION_TIME,
                                  USER_EXPIRATION_TIME + TOKEN_GRACE_PERIOD)
    IN  IF ~EXISTS(s, userKeyOf(username)) THEN Out(s, 404, NoToken)
        ELSE Out(s3, 201, authToken)

\* handleRefreshToken that hands the new token out without storing it
handleRefreshToken_unstored(s, originalUsername, oldToken, authToken) ==
  IF originalUsername = NoName \/ oldToken = NoToken THEN Out(s, 400, NoToken)
  ELSE
    LET username == ToLower(originalUsername)
        validationResult == validateAuth(s, username, oldToken, TRUE)
        s1 == storeLastValidToken(validationResult.s, username, oldToken, now,
                                  TOKEN_GRACE_PERIOD)
        s2 == deleteToken(s1, oldToken)
    IN  IF ~EXISTS(s, userKeyOf(username)) THEN Out(s, 404, NoToken)
        ELSE IF ~validationResult.valid THEN Out(s, 401, NoToken)
        ELSE Out(s2, 201, authToken)

handleRefreshToken(s, originalUsername, oldToken, authToken) ==
  IF originalUsername = NoName \/ oldToken = NoToken THEN Out(s, 400, NoToken)
  ELSE
    LET username == ToLower(originalUsername)
        validationResult == validateAuth(s, username, oldToken, TRUE)
        s1 == storeLastValidToken(validationResult.s, username, oldToken, now,
                                  TOKEN_GRACE_PERIOD)
        s2 == deleteToken(s1, oldToken)
        s3 == SETEX(s2, getTokenKey(username), authToken, USER_EXPIRATION_TIME)
        s4 == storeToken(s3, username, authToken)
    IN  IF ~EXISTS(s, userKeyOf(username)) THEN Out(s, 404, NoToken)
        ELSE IF ~validationResult.valid THEN Out(s, 401, NoToken)
        ELSE Out(s4, 201, authToken)

handleAuthenticateWithPassword(s, originalUsername, password, oldToken, authToken) ==
  IF originalUsername = NoName \/ password = NoPassword
  THEN Out(s, 400, NoToken)
  ELSE
    LET username == ToLower(originalUsername)
        s1 == IF oldToken # NoToken
              THEN storeLastValidToken(deleteToken(s, oldToken), username,
                                       oldToken, now, TOKEN_GRACE_PERIOD)
              ELSE s
        s2 == SETEX(s1, getTokenKey(username), authToken, USER_EXPIRATION_TIME)
        s3 == storeToken(s2, username, authToken)
        s4 == storeLastValidToken(s3, username, authToken,
                                  now + USER_EXPIRATION_TIME,
                                  USER_EXPIRATION_TIME + TOKEN_GRACE_PERIOD)
    IN  IF ~EXISTS(s, userKeyOf(username)) THEN Out(s, 401, NoToken)
        ELSE IF ~EXISTS(s, passwordKeyOf(username)) THEN Out(s, 401, NoToken)
        ELSE IF ~verifyPassword(password, GET(s, passwordKeyOf(username)))
        THEN Out(s, 401, NoToken)
        ELSE Out(s4, 200, authToken)

handleSetPassword(s, password, username) ==
  IF password = NoPassword THEN Out(s, 400, NoToken)
  ELSE IF PasswordLen(password) < PASSWORD_MIN_LENGTH THEN Out(s, 400, NoToken)
  ELSE Out(SET(s, passwordKeyOf(username), hashPassword(password)), 200, NoToken)

handleLogoutCurrent(s, username, token) == Out(deleteToken(s, token), 200, NoToken)

handleLogoutAllDevices(s, username) == deleteAllUserTokens(s, username)

\* SCAN match chat:token:last:*, the records that hold the token within the
\* grace period after their expiredAt
GraceRecordsOf(s, token) ==
  {k \in DOMAIN s : /\ Len(k) = 2
                    /\ k[1] = "chat:token:last:"
                    /\ JSON_parse(GET(s, k)).token = token
                    /\ now < JSON_parse(GET(s, k)).expiredAt + TOKEN_GRACE_PERIOD}

\* handleVerifyToken: [s, status, username, expired]
handleVerifyToken(s, authToken) ==
  LET directKey == getTokenKey(authToken)
      found == ScanUserKeysOfToken(s, authToken)
      grace == GraceRecordsOf(s, authToken)
  IN  IF authToken = NoToken
      THEN [s |-> s, status |-> 401, username |-> NoName, expired |-> FALSE]
      ELSE IF EXISTS(s, directKey)
      THEN \* 1. chat:token:{token} -> username
           LET username == ToLower(GET(s, directKey))
               userKey == getUserTokenKey(username, authToken)
               s1 == EXPIRE(s, directKey, USER_TTL_SECONDS)
           IN  [s |-> IF EXISTS(s1, userKey)
                      THEN EXPIRE(s1, userKey, USER_TTL_SECONDS)
                      ELSE SETEX(s1, userKey, CreatedAt, USER_TTL_SECONDS),
                status |-> 200, username |-> username, expired |-> FALSE]
      ELSE IF found # {}
      THEN \* 2. the first chat:token:user:*:{token} the scan returns
           LET foundKey == CHOOSE k \in found : TRUE
               username == foundKey[2]
           IN  [s |-> SETEX(EXPIRE(s, foundKey, USER_TTL_SECONDS), directKey,
                            username, USER_TTL_SECONDS),
                status |-> 200, username |-> username, expired |-> FALSE]
      ELSE IF grace # {}
      THEN \* 3. a last-token record within its grace period
           [s |-> s, status |-> 200,
            username |-> (CHOOSE k \in grace : TRUE)[2], expired |-> TRUE]
      ELSE [s |-> s, status |-> 401, username |-> NoName, expired |-> FALSE]

-----------------------------------------------------------------------------
(* Requests of the token manager.  N is the set of usernames the clients   *)
(* of a behaviour use, max the number of tokens handed out in it.          *)

IssuedTokens == {TokenPool[i] : i \in 1..nTokens}

\* the names of N that clients send in X-Username, and the names they put
\* in the body of an authenticated request: the stored spelling or none
HeaderNames(N) == N \cap ClientNames

BodyNames(N) == {ToLower(n) : n \in HeaderNames(N)} \cup {NoName}

\* the state a request leaves: the key space s, the response r, the history
Respond(r, s, log, max) ==
  /\ r.token # NoToken => nTokens < max
  /\ kv' = s
  /\ resp' = r
  /\ tokLog' = log
  /\ nTokens' = IF r.token # NoToken THEN nTokens + 1 ELSE nTokens
  /\ now' = now
  /\ UNCHANGED <<ms, nIds, presLog, inflight, sendLog, rateLog>>

\* POST createUser (no authentication)
CreateUser(N, max) ==
  \E username \in N \cup {NoName},
     password \in Passwords \cup Guesses \cup {NoPassword} :
    LET out == handleCreateUser(kv, username, password, generateAuthToken)
    IN  /\ password \in Guesses => EXISTS(kv, userKeyOf(ToLower(username)))
        /\ Respond(Response("createUser", out.status, ToLower(username),
                            out.token, 0),
                   out.s,
                   IF out.token # NoToken
                   THEN LogIssue(tokLog, out.token, ToLower(username))
                   ELSE tokLog,
                   max)

\* POST generateToken (authenticated)
GenerateToken(N, max) ==
  \E headerUsername \in HeaderNames(N),
     bodyUsername \in BodyNames(N),
     token \in IssuedTokens :
    LET auth == Gate(kv, headerUsername, bodyUsername, token)
        out == IF auth.valid
               THEN handleGenerateToken(auth.s, bodyUsername, generateAuthToken)
               ELSE Out(kv, 401, NoToken)
        touched == IF auth.valid THEN LogTouch(tokLog, token, headerUsername)
                                 ELSE tokLog
    IN  Respond(Response("generateToken", out.status, ToLower(bodyUsername),
                         out.token, 0),
                out.s,
                IF out.token # NoToken
                THEN LogIssue(LogSupersede(touched, bodyUsername, NoToken),
                              out.token, ToLower(bodyUsername))
                ELSE touched,
                max)

\* POST refreshToken (no authentication: the handler validates oldToken)
RefreshToken(N, max) ==
  \E username \in HeaderNames(N), oldToken \in IssuedTokens :
    LET out == handleRefreshToken(kv, username, oldToken, generateAuthToken)
    IN  Respond(Response("refreshToken", out.status, ToLower(username),
                         out.token, 0),
                out.s,
                IF out.token # NoToken
                THEN LogIssue(LogSupersede(LogEnd(tokLog, oldToken, "refreshed"),
                                           username, oldToken),
                              out.token, ToLower(username))
                ELSE tokLog,
                max)

\* POST authenticateWithPassword (no authentication)
AuthenticateWithPassword(N, max) ==
  \E username \in HeaderNames(N),
     password \in {"password1"} \cup Guesses \cup {NoPassword},
     oldToken \in IssuedTokens \cup {NoToken} :
    LET out == handleAuthenticateWithPassword(kv, username, password, oldToken,
                                              generateAuthToken)
    IN  Respond(Response("authenticateWithPassword", out.status,
                         ToLower(username), out.token, 0),
                out.s,
                IF out.token # NoToken
                THEN LogIssue(LogSupersede(LogEnd(tokLog, oldToken, "replaced"),
                                           username, NoToken),
                              out.token, ToLower(username))
                ELSE tokLog,
                max)

\* POST setPassword (authenticated; the request carries no username in its body)
SetPassword(N, max) ==
  \E headerUsername \in HeaderNames(N), token \in IssuedTokens,
     password \in Passwords \cup {NoPassword} :
    LET auth == Gate(kv, headerUsername, NoName, token)
        out == IF auth.valid
               THEN handleSetPassword(auth.s, password, headerUsername)
               ELSE Out(kv, 401, NoToken)
    IN  Respond(Response("setPassword", out.status, ToLower(headerUsername),
                         NoToken, 0),
                out.s,
                IF auth.valid THEN LogTouch(tokLog, token, headerUsername)
                              ELSE tokLog,
                max)

\* GET checkPassword, POST listTokens: authenticated reads, which change the
\* key space only through validateAuth
CheckPassword(N, max) ==
  \E headerUsername \in HeaderNames(N), token \in IssuedTokens :
    LET auth == validateAuth(kv, headerUsername, token, FALSE)
    IN  Respond(Response("checkPassword", IF auth.valid THEN 200 ELSE 401,
                         ToLower(headerUsername), NoToken, 0),
                auth.s,
                IF auth.valid THEN LogTouch(tokLog, token, headerUsername)
                              ELSE tokLog,
                max)

\* POST verifyToken (no gate: the handler looks the bearer token up)
VerifyToken(N, max) ==
  \E token \in IssuedTokens :
    LET out == handleVerifyToken(kv, token)
    IN  Respond(Response("verifyToken", out.status, out.username, NoToken, 0),
                out.s,
                IF out.status = 200 /\ ~out.expired
                THEN LogTouch(tokLog, token, out.username)
                ELSE tokLog,
                max)

\* POST logoutAllDevices (authenticated)
LogoutAllDevices(N, max) ==
  \E headerUsername \in HeaderNames(N), token \in IssuedTokens :
    LET auth == Gate(kv, headerUsername, NoName, token)
        out == handleLogoutAllDevices(auth.s, headerUsername)
    IN  IF auth.valid
        THEN Respond(Response("logoutAllDevices", 200, ToLower(headerUsername),
                              NoToken, out.deletedCount),
                     out.s, LogEndAll(tokLog, headerUsername, "logoutAll"), max)
        ELSE Respond(Response("logoutAllDevices", 401, ToLower(headerUsername),
                              NoToken, 0),
                     kv, tokLog, max)

\* POST logoutCurrent (authenticated)
LogoutCurrent(N, max) ==
  \E headerUsername \in HeaderNames(N), token \in IssuedTokens :
    LET auth == Gate(kv, headerUsername, NoName, token)
        out == IF auth.valid
               THEN handleLogoutCurrent(auth.s, headerUsername, token)
               ELSE Out(kv, 401, NoToken)
    IN  Respond(Response("logoutCurrent", out.status, ToLower(headerUsername),
                         NoToken, 0),
                out.s,
                IF auth.valid THEN LogEnd(tokLog, token, "logout") ELSE tokLog,
                max)

-----------------------------------------------------------------------------
(* The clock                                                               *)

AuthInstants ==
  {a * StepDays * DAY + c * TOKEN_GRACE_PERIOD :
     a \in 0..MaxShortSteps, c \in 0..MaxLongSteps}

\* the clock reaches second t and m milliseconds; Redis has dropped the keys
\* whose TTL ran out
PassTo(t, m) ==
  /\ t > now \/ (t = now /\ m > ms)
  /\ now' = t
  /\ ms' = m
  /\ kv' = Unexpired(kv, t, m)
  /\ resp' = NoResponse
  /\ UNCHANGED <<nTokens, nIds, tokLog, presLog, inflight, sendLog, rateLog>>

\* the clock reaches second t
Pass(t) == PassTo(t, 0)

AuthTick == \E t \in AuthInstants : Pass(t)

-----------------------------------------------------------------------------
(* Specifications of the token manager                                     *)

Init ==
  /\ kv = <<>>
  /\ now = 0
  /\ ms = 0
  /\ nTokens = 0
  /\ nIds = 0
  /\ resp = NoResponse
  /\ tokLog = <<>>
  /\ presLog = <<>>
  /\ inflight = <<>>
  /\ sendLog = <<>>
  /\ rateLog = <<>>

\* SpecTokens: two users and their devices, within one token lifetime
TokensNext ==
  \/ CreateUser(Names, MaxTokens)
  \/ GenerateToken(Names, MaxTokens)
  \/ RefreshToken(Names, MaxTokens)
  \/ AuthenticateWithPassword(Names, MaxTokens)
  \/ SetPassword(Names, MaxTokens)
  \/ CheckPassword(Names, MaxTokens)
  \/ VerifyToken(Names, MaxTokens)
  \/ LogoutAllDevices(Names, MaxTokens)
  \/ LogoutCurrent(Names, MaxTokens)

SpecTokens == Init /\ [][TokensNext]_vars

\* SpecLapse: one user, over the lifetime and the grace period of its tokens
LapseNext ==
  \/ CreateUser(LapseNames, MaxLapseTokens)
  \/ GenerateToken(LapseNames, MaxLapseTokens)
  \/ RefreshToken(LapseNames, MaxLapseTokens)
  \/ AuthenticateWithPassword(LapseNames, MaxLapseTokens)
  \/ SetPassword(LapseNames, MaxLapseTokens)
  \/ CheckPassword(LapseNames, MaxLapseTokens)
  \/ VerifyToken(LapseNames, MaxLapseTokens)
  \/ LogoutAllDevices(LapseNames, MaxLapseTokens)
  \/ LogoutCurrent(LapseNames, MaxLapseTokens)
  \/ AuthTick

SpecLapse == Init /\ [][LapseNext]_vars

-----------------------------------------------------------------------------
(* Message content.  A content is the sequence of its words; the filters   *)
(* work word by word.                                                      *)

\* filter.addWords
Blacklist == {"badword1"}

\* the word the filter leaves of a blacklisted word of eight characters:
\* eight placeholders
MASKED == "########"

IsUrl(w) == w = "https://x/badword1"

WordLen(w) ==
  CASE w = "hi" -> 2
    [] w = "badword1" -> 8
    [] w = MASKED -> 8
    [] w = "<" -> 1
    [] w = "&lt;" -> 4
    [] w = "lorem997" -> 997
    [] w = "https://x/badword1" -> 18
    [] OTHER -> 0

\* filter.clean
clean(w) == IF w \in Blacklist THEN MASKED ELSE w

\* filterProfanityPreservingUrls: URLs unchanged, the rest cleaned
filterProfanityPreservingUrls(content) ==
  [i \in DOMAIN content |->
     IF IsUrl(content[i]) THEN content[i] ELSE clean(content[i])]

\* escapeHTML: & < > " ' become character references
escapeHTML(str) ==
  [i \in DOMAIN str |-> IF str[i] = "<" THEN "&lt;" ELSE str[i]]

RECURSIVE ContentLen(_)
\* content.length
ContentLen(content) ==
  IF content = <<>> THEN 0
  ELSE WordLen(Head(content)) + ContentLen(Tail(content))

\* the contents a sendMessage request may carry; <<>> is the empty string
NoContent == <<>>

RawContents ==
  {NoContent, <<"hi">>, <<"badword1">>, <<MASKED>>, <<"lorem997", "<">>}

-----------------------------------------------------------------------------
(* Rooms, presence and messages.  The chat handlers work on c = [kv, pres]:*)
(* the key space and the history of the presence entries.                  *)

NoId == ""

\* generateId: 32 hex digits, never repeated within a behaviour
IdPool == [i \in 1..(MaxLogIds + MaxInFlight + 1) |-> "id" \o ToString(i)]

generateId == IdPool[nIds + 1]

\* ROOM_ID_REGEX.test(roomId); "no id" stands for an id with a character
\* outside [a-z0-9]
assertValidRoomId(roomId) == roomId # NoId /\ roomId # "no id"

roomKeyOf(roomId) == <<CHAT_ROOM_PREFIX, roomId>>

messagesKeyOf(roomId) == <<CHAT_MESSAGES_PREFIX, roomId>>

presenceKeyOf(roomId, username) == <<CHAT_ROOM_PRESENCE_PREFIX, roomId, username>>

\* the history of presence entries: (roomId, username) -> the second the
\* entry was last set or refreshed at; a deleted entry leaves the history
TouchPresence(pres, roomId, username) ==
  [x \in DOMAIN pres \cup {<<roomId, username>>} |->
     IF x = <<roomId, username>> THEN now ELSE pres[x]]

ForgetPresence(pres, K) ==
  [x \in DOMAIN pres \ {<<k[2], k[3]>> : k \in K} |-> pres[x]]

setRoomPresence(c, roomId, username) ==
  [kv |-> SETEX(c.kv, presenceKeyOf(roomId, username), CreatedAt,
                ROOM_PRESENCE_TTL_SECONDS),
   pres |-> TouchPresence(c.pres, roomId, username)]

\* refreshRoomPresence: only an existing entry is refreshed
refreshRoomPresence(c, roomId, username) ==
  IF EXISTS(c.kv, presenceKeyOf(roomId, username))
  THEN [kv |-> EXPIRE(c.kv, presenceKeyOf(roomId, username),
                      ROOM_PRESENCE_TTL_SECONDS),
        pres |-> TouchPresence(c.pres, roomId, username)]
  ELSE c

\* redis.del of presence keys
delPresence(c, K) ==
  [kv |-> DEL(c.kv, K), pres |-> ForgetPresence(c.pres, K)]

\* SCAN match chat:presence:{roomId}:*
PresenceKeysOf(s, roomId) ==
  {k \in DOMAIN s : Len(k) = 3 /\ k[1] = CHAT_ROOM_PRESENCE_PREFIX
                     /\ k[2] = roomId}

\* getActiveUsersInRoom: of each key the part after its last ":"
getActiveUsersInRoom(s, roomId) ==
  {LastPart(k[3]) : k \in PresenceKeysOf(s, roomId)}

\* refreshRoomUserCount: the number of presence keys, written to the room
\* record when there is one.  (The legacy set chat:room:users:{roomId} that
\* getActiveUsersAndPrune deletes is written by no handler.)
refreshRoomUserCount(s, roomId) ==
  LET userCount == Cardinality(PresenceKeysOf(s, roomId))
      roomKey == roomKeyOf(roomId)
  IN  [s |-> IF EXISTS(s, roomKey)
             THEN SET(s, roomKey, [GET(s, roomKey) EXCEPT !.userCount = userCount])
             ELSE s,
       userCount |-> userCount]

\* ensureUserExists: [s, error]
ensureUserExists(s, username) ==
  IF isProfane(username) THEN [s |-> s, error |-> "profane"]
  ELSE IF NameLen(username) < MIN_USERNAME_LENGTH
          \/ NameLen(username) > MAX_USERNAME_LENGTH
          \/ ~USERNAME_REGEX(username)
  THEN [s |-> s, error |-> "invalid"]
  ELSE [s |-> SETNX(s, userKeyOf(username), UserRecord(username)),
        error |-> "none"]

\* what a chat handler hands back
Reply(c, status) == [c |-> c, status |-> status, error |-> NoError]

\* createErrorResponse(message, status), where the message is told apart
ReplyError(c, status, error) == [c |-> c, status |-> status, error |-> error]

DuplicateMessage == "Duplicate message detected"

includes(seq, x) == \E i \in DOMAIN seq : seq[i] = x

\* the lowercased names of the model in ascending order of their UTF-16
\* code units, the order of Array.prototype.sort()
SortOrder == <<"al", "alice", "badword1", "bob", "carol", "ryo", "x:bob">>

Rank(n) == CHOOSE i \in 1..Len(SortOrder) : SortOrder[i] = n

RECURSIVE insert(_, _)
\* m put into the sorted sequence seq
insert(seq, m) ==
  IF seq = <<>> THEN <<m>>
  ELSE IF Rank(m) <= Rank(Head(seq)) THEN <<m>> \o seq
  ELSE <<Head(seq)>> \o insert(Tail(seq), m)

RECURSIVE sort(_)
\* [...members].sort()
sort(seq) == IF seq = <<>> THEN <<>> ELSE insert(sort(Tail(seq)), Head(seq))

RECURSIVE join(_, _)
\* Array.prototype.join(sep)
join(seq, sep) ==
  IF seq = <<>> THEN ""
  ELSE IF Len(seq) = 1 THEN seq[1]
  ELSE seq[1] \o sep \o join(Tail(seq), sep)

\* sortedMembers.map((m) => `@${m}`).join(", ")
privateName(members) ==
  LET sortedMembers == sort(members)
  IN  join([i \in DOMAIN sortedMembers |-> "@" \o sortedMembers[i]], ", ")

\* handleCreateRoom(data, username): the room record { id, name, type,
\* userCount, members }; createdAt, which no handler reads, is left out
\* the admin check of createRoom, deleteRoom and deleteMessage:
\* username.toLowerCase() === "ryo"
isAdmin_anyone(username) == TRUE

isAdmin(username) == ToLower(username) = ADMIN

handleCreateRoom(c, originalName, type, members, username, roomId) ==
  LET normalizedUsername == ToLower(username)
      lowered == [i \in DOMAIN members |-> ToLower(members[i])]
      normalizedMembers == IF includes(lowered, normalizedUsername)
                           THEN lowered
                           ELSE Append(lowered, normalizedUsername)
      \* no public name of the model holds a space for replace(/ /g, "-")
      roomName == IF type = "public" THEN ToLower(originalName)
                                     ELSE privateName(normalizedMembers)
      room == [id |-> roomId, name |-> roomName, type |-> type,
               userCount |-> IF type = "private" THEN Len(normalizedMembers)
                                                 ELSE 0,
               members |-> IF type = "private" THEN normalizedMembers ELSE <<>>]
      s1 == SET(c.kv, roomKeyOf(roomId), room)
      RECURSIVE setAll(_, _)
      setAll(cc, i) ==
        IF i > Len(normalizedMembers) THEN cc
        ELSE setAll(setRoomPresence(cc, roomId, normalizedMembers[i]), i + 1)
  IN  IF type \notin {"public", "private"} THEN Reply(c, 400)
      ELSE IF type = "public" /\ originalName = NoName THEN Reply(c, 400)
      ELSE IF type = "public" /\ ~isAdmin(username) THEN Reply(c, 403)
      ELSE IF type = "public" /\ isProfane(originalName) THEN Reply(c, 400)
      ELSE IF type = "private" /\ Len(members) = 0 THEN Reply(c, 400)
      ELSE IF type = "private"
      THEN Reply(setAll([kv |-> s1, pres |-> c.pres], 1), 201)
      ELSE Reply([kv |-> s1, pres |-> c.pres], 201)

handleJoinRoom(c, roomId, originalUsername) ==
  LET username == ToLower(originalUsername)
      roomKey == roomKeyOf(roomId)
      roomData == GET(c.kv, roomKey)
      c1 == setRoomPresence(c, roomId, username)
      counted == refreshRoomUserCount(c1.kv, roomId)
      s2 == SET(counted.s, roomKey,
                [roomData EXCEPT !.userCount = counted.userCount])
      s3 == SET(s2, userKeyOf(username), UserRecord(username))
  IN  IF roomId = NoId \/ username = NoName THEN Reply(c, 400)
      ELSE IF ~assertValidUsername(username) \/ ~assertValidRoomId(roomId)
      THEN Reply(c, 400)
      ELSE IF ~EXISTS(c.kv, roomKey) THEN Reply(c, 404)
      ELSE IF ~EXISTS(c.kv, userKeyOf(username)) THEN Reply(c, 404)
      ELSE Reply([kv |-> s3, pres |-> c1.pres], 200)

handleLeaveRoom(c, roomId, originalUsername) ==
  LET username == ToLower(originalUsername)
      roomKey == roomKeyOf(roomId)
      roomObj == GET(c.kv, roomKey)
      presenceKey == presenceKeyOf(roomId, username)
      removed == EXISTS(c.kv, presenceKey)
      c1 == delPresence(c, {presenceKey})
      counted == refreshRoomUserCount(c1.kv, roomId)
      keep(m) == m # username
      updatedMembers == SelectSeq(roomObj.members, keep)
      s2 == IF roomObj.type = "private"
            THEN IF Len(updatedMembers) <= 1
                 THEN \* the room and its messages go; its presence keys stay
                      DEL(counted.s, {roomKey, messagesKeyOf(roomId)})
                 ELSE SET(counted.s, roomKey,
                          [roomObj EXCEPT !.members = updatedMembers,
                                          !.userCount = counted.userCount])
            ELSE counted.s
  IN  IF roomId = NoId \/ username = NoName THEN Reply(c, 400)
      ELSE IF ~assertValidUsername(username) \/ ~assertValidRoomId(roomId)
      THEN Reply(c, 400)
      ELSE IF ~EXISTS(c.kv, roomKey) THEN Reply(c, 404)
      ELSE IF removed THEN Reply([kv |-> s2, pres |-> c1.pres], 200)
      ELSE Reply(c, 200)

\* switching away from a private room keeps the presence entry
keepsPresence_never(roomData) == FALSE

keepsPresence(roomData) == roomData.type = "private"

handleSwitchRoom(c, previousRoomId, nextRoomId, originalUsername) ==
  LET username == ToLower(originalUsername)
      ensured == ensureUserExists(c.kv, username)
      c0 == [kv |-> ensured.s, pres |-> c.pres]
      \* leave previous: the presence in a public room is removed
      prevKey == roomKeyOf(previousRoomId)
      c1 == IF /\ previousRoomId # NoId
               /\ EXISTS(c0.kv, prevKey)
               /\ ~keepsPresence(GET(c0.kv, prevKey))
            THEN LET d == delPresence(c0, {presenceKeyOf(previousRoomId, username)})
                 IN  [kv |-> refreshRoomUserCount(d.kv, previousRoomId).s,
                      pres |-> d.pres]
            ELSE c0
      \* join next
      nextKey == roomKeyOf(nextRoomId)
      roomData == GET(c1.kv, nextKey)
      c2 == setRoomPresence(c1, nextRoomId, username)
      counted == refreshRoomUserCount(c2.kv, nextRoomId)
      s3 == SET(counted.s, nextKey,
                [roomData EXCEPT !.userCount = counted.userCount])
      s4 == SET(s3, userKeyOf(username), UserRecord(username))
  IN  IF username = NoName THEN Reply(c, 400)
      ELSE IF \/ previousRoomId # NoId /\ ~assertValidRoomId(previousRoomId)
              \/ nextRoomId # NoId /\ ~assertValidRoomId(nextRoomId)
      THEN Reply(c, 400)
      ELSE IF previousRoomId = nextRoomId THEN Reply(c, 200)
      ELSE IF ensured.error # "none" THEN Reply(c, 500)
      ELSE IF nextRoomId = NoId THEN Reply(c1, 200)
      ELSE IF ~EXISTS(c1.kv, nextKey) THEN Reply(c1, 404)
      ELSE Reply([kv |-> s4, pres |-> c2.pres], 200)

handleDeleteRoom(c, roomId, username) ==
  LET roomKey == roomKeyOf(roomId)
      roomData == GET(c.kv, roomKey)
      keep(m) == m # ToLower(username)
      updatedMembers == SelectSeq(roomData.members, keep)
      \* the room, its messages and every presence key of it
      purged == delPresence([kv |-> DEL(c.kv, {roomKey, messagesKeyOf(roomId)}),
                             pres |-> c.pres],
                            PresenceKeysOf(c.kv, roomId))
      \* the room goes on without the member
      left == delPresence(
                [kv |-> SET(c.kv, roomKey,
                            [roomData EXCEPT !.members = updatedMembers,
                                             !.userCount = Len(updatedMembers)]),
                 pres |-> c.pres],
                {presenceKeyOf(roomId, ToLower(username))})
  IN  IF ~EXISTS(c.kv, roomKey) THEN Reply(c, 404)
      ELSE IF roomData.type = "private"
              /\ ~includes(roomData.members, ToLower(username))
      THEN Reply(c, 403)
      ELSE IF roomData.type # "private" /\ ~isAdmin(username)
      THEN Reply(c, 403)
      ELSE IF roomData.type = "private" /\ Len(updatedMembers) > 1
      THEN Reply(left, 200)
      ELSE Reply(purged, 200)

\* the answers of the burst limiter
BurstShort == "You're sending messages too quickly. Please slow down."

BurstLong == "Too many messages in a short period. Please wait a moment."

BurstInterval == "Please wait a moment before sending another message."

\* The store commands of the burst limiter's try block, in the order they
\* are sent: 1 redis.get(roomKey), 2 redis.incr(shortKey), 3
\* redis.expire(shortKey), 4 redis.incr(longKey), 5 redis.expire(longKey),
\* 6 redis.get(lastKey), 7 redis.set(lastKey).  failAt is the command that
\* throws, NoFailure when the store answers all of them.
NoFailure == 0

BurstCommands == 1..7

\* the catch of the burst limiter: logs and goes on; s is what the
\* commands before the one that threw have written
burstCaught(s) ==
  [s |-> s, limited |-> FALSE, error |-> NoError, failed |-> TRUE]

\* the burst limiter of handleSendMessage for a public room:
\* [s, limited, error, failed].  Math.floor(Date.now() / 1000) is now,
\* whatever ms.  Date.now() is far from the epoch, so a stored lastSent is
\* never falsy.
burstLimitUnless(s, roomId, username, failAt) ==
  LET shortKey == <<CHAT_BURST_PREFIX, "s:", roomId, username>>
      longKey == <<CHAT_BURST_PREFIX, "l:", roomId, username>>
      lastKey == <<CHAT_BURST_PREFIX, "last:", roomId, username>>
      s1 == INCR(s, shortKey)
      shortCount == GET(s1, shortKey)
      s2 == IF shortCount = 1
            THEN EXPIRE(s1, shortKey, CHAT_BURST_SHORT_WINDOW_SECONDS)
            ELSE s1
      s3 == INCR(s2, longKey)
      longCount == GET(s3, longKey)
      s4 == IF longCount = 1
            THEN EXPIRE(s3, longKey, CHAT_BURST_LONG_WINDOW_SECONDS)
            ELSE s3
      nowSeconds == now
  IN  IF failAt = 2 THEN burstCaught(s)
      ELSE IF shortCount = 1 /\ failAt = 3 THEN burstCaught(s1)
      ELSE IF shortCount > CHAT_BURST_SHORT_LIMIT
      THEN [s |-> s2, limited |-> TRUE, error |-> BurstShort,
            failed |-> FALSE]
      ELSE IF failAt = 4 THEN burstCaught(s2)
      ELSE IF longCount = 1 /\ failAt = 5 THEN burstCaught(s3)
      ELSE IF longCount > CHAT_BURST_LONG_LIMIT
      THEN [s |-> s4, limited |-> TRUE, error |-> BurstLong,
            failed |-> FALSE]
      ELSE IF failAt = 6 THEN burstCaught(s4)
      ELSE IF /\ EXISTS(s4, lastKey)
              /\ nowSeconds - GET(s4, lastKey) < CHAT_MIN_INTERVAL_SECONDS
      THEN [s |-> s4, limited |-> TRUE, error |-> BurstInterval,
            failed |-> FALSE]
      ELSE IF failAt = 7 THEN burstCaught(s4)
      ELSE [s |-> SETEX(s4, lastKey, nowSeconds,
                        CHAT_BURST_LONG_WINDOW_SECONDS),
            limited |-> FALSE, error |-> NoError, failed |-> FALSE]

\* the burst limiter when the store answers every command
burstLimit(s, roomId, username) ==
  burstLimitUnless(s, roomId, username, NoFailure)

\* a read of the newest message that finds none
LRANGE00_none(s, k) == <<>>

\* redis.lrange(key, 0, 0)
LRANGE00(s, k) == IF EXISTS(s, k) THEN SubSeq(GET(s, k), 1, 1) ELSE <<>>

\* redis.lpush(key, v)
LPUSH(s, k, v) == SET(s, k, <<v>> \o (IF EXISTS(s, k) THEN GET(s, k) ELSE <<>>))

\* redis.ltrim(key, 0, stop)
LTRIM(s, k, stop) ==
  IF ~EXISTS(s, k) THEN s
  ELSE SET(s, k, SubSeq(GET(s, k), 1, IF Len(GET(s, k)) > stop + 1
                                      THEN stop + 1 ELSE Len(GET(s, k))))

\* redis.lpush(key, v) followed by redis.ltrim(key, 0, LTRIM_STOP)
LPUSH_LTRIM(s, k, v) == LTRIM(LPUSH(s, k, v), k, LTRIM_STOP)

\* a handler that has not answered yet
Proceed(c) == [c |-> c, status |-> 0, error |-> NoError]

\* a limiter that counts the sends of every room, private ones too
burstOf_always(c, roomId, username, failAt) ==
  IF failAt = 1 THEN burstCaught(c.kv)
  ELSE burstLimitUnless(c.kv, roomId, username, failAt)

\* the try block of the burst limiter once handleSendMessage has validated
\* the request: the room record is read (command 1); a private room is not
\* limited
burstOf(c, roomId, username, failAt) ==
  IF failAt = 1 THEN burstCaught(c.kv)
  ELSE IF GET(c.kv, roomKeyOf(roomId)).type = "public"
  THEN burstLimitUnless(c.kv, roomId, username, failAt)
  ELSE [s |-> c.kv, limited |-> FALSE, error |-> NoError, failed |-> FALSE]

\* handleSendMessage from "Check if room exists" to the duplicate check:
\* the answer of a rejected request, or Proceed
sendMessageRest(c, roomId, username, content) ==
  LET ensured == ensureUserExists(c.kv, username)
      lastMessagesRaw == LRANGE00(ensured.s, messagesKeyOf(roomId))
  IN  IF ~EXISTS(c.kv, roomKeyOf(roomId)) THEN Reply(c, 404)
      ELSE IF ensured.error = "profane" THEN Reply(c, 400)
      ELSE IF ensured.error # "none" THEN Reply(c, 500)
      ELSE IF ContentLen(content) > MAX_MESSAGE_LENGTH
      THEN Reply([kv |-> ensured.s, pres |-> c.pres], 400)
      ELSE IF /\ Len(lastMessagesRaw) > 0
              /\ lastMessagesRaw[1].username = username
              /\ lastMessagesRaw[1].content = content
      THEN ReplyError([kv |-> ensured.s, pres |-> c.pres], 400,
                      DuplicateMessage)
      ELSE Proceed([kv |-> ensured.s, pres |-> c.pres])

\* handleSendMessage up to the duplicate check, the store throwing at the
\* command failAt of the burst limiter: the answer of a rejected request,
\* or Proceed
sendMessageChecksUnless(c, roomId, originalUsername, originalContent, failAt) ==
  LET username == ToLower(originalUsername)
      content == escapeHTML(filterProfanityPreservingUrls(originalContent))
      limit == burstOf(c, roomId, username, failAt)
  IN  IF ~assertValidUsername(username) \/ ~assertValidRoomId(roomId)
      THEN Reply(c, 400)
      ELSE IF originalContent = NoContent THEN Reply(c, 400)
      ELSE IF failAt # 1 /\ ~EXISTS(c.kv, roomKeyOf(roomId))
      THEN Reply(c, 404)
      ELSE IF limit.limited
      THEN ReplyError([kv |-> limit.s, pres |-> c.pres], 429, limit.error)
      ELSE sendMessageRest([kv |-> limit.s, pres |-> c.pres], roomId,
                           username, content)

\* the command failAt of the burst limiter is sent, and throws
burstThrows(c, roomId, originalUsername, originalContent, failAt) ==
  /\ assertValidUsername(ToLower(originalUsername))
  /\ assertValidRoomId(roomId)
  /\ originalContent # NoContent
  /\ failAt # 1 => EXISTS(c.kv, roomKeyOf(roomId))
  /\ burstOf(c, roomId, ToLower(originalUsername), failAt).failed

\* handleSendMessage up to the duplicate check when the store answers
sendMessageChecks(c, roomId, originalUsername, originalContent) ==
  sendMessageChecksUnless(c, roomId, originalUsername, originalContent,
                          NoFailure)

\* the message { id, username, content } of a send; roomId and timestamp,
\* which no handler reads, are left out
messageOf(messageId, originalUsername, originalContent) ==
  [id |-> messageId, username |-> ToLower(originalUsername),
   content |-> escapeHTML(filterProfanityPreservingUrls(originalContent))]

\* handleSendMessage after lpush and ltrim: the user record is rewritten and
\* its TTL renewed, the presence entry refreshed
sendMessageUpdate(c, roomId, username) ==
  refreshRoomPresence(
    [kv |-> EXPIRE(SET(c.kv, userKeyOf(username), UserRecord(username)),
                   userKeyOf(username), USER_EXPIRATION_TIME),
     pres |-> c.pres],
    roomId, username)

\* handleSendMessage, run without another request in between, the store
\* throwing at the command failAt of the burst limiter
handleSendMessageUnless(c, roomId, originalUsername, originalContent, messageId, failAt) ==
  LET checked == sendMessageChecksUnless(c, roomId, originalUsername,
                                         originalContent, failAt)
      message == messageOf(messageId, originalUsername, originalContent)
      stored == LPUSH_LTRIM(checked.c.kv, messagesKeyOf(roomId), message)
  IN  IF checked.status # 0 THEN checked
      ELSE Reply(sendMessageUpdate([kv |-> stored, pres |-> checked.c.pres],
                                   roomId, message.username),
                 201)

\* handleSendMessage when the store answers
handleSendMessage(c, roomId, originalUsername, originalContent, messageId) ==
  handleSendMessageUnless(c, roomId, originalUsername, originalContent,
                          messageId, NoFailure)

\* the texts the language model may answer with
NoPrompt == <<>>

RyoReplies == {<<"hi">>, <<"lorem997", "hi", "hi">>}

\* handleGenerateRyoReply up to the call of the language model, whose answer
\* is replyText, or which fails
ryoReplyChecks(c, roomId, prompt, generationFails) ==
  IF ~assertValidRoomId(roomId) THEN Reply(c, 400)
  ELSE IF prompt = NoPrompt THEN Reply(c, 400)
  ELSE IF ~EXISTS(c.kv, roomKeyOf(roomId)) THEN Reply(c, 404)
  ELSE IF generationFails THEN Reply(c, 500)
  ELSE Proceed(c)

\* handleGenerateRyoReply, run without another request in between
handleGenerateRyoReply(c, roomId, prompt, generationFails, replyText, messageId) ==
  LET checked == ryoReplyChecks(c, roomId, prompt, generationFails)
      message == messageOf(messageId, ADMIN, replyText)
  IN  IF checked.status # 0 THEN checked
      ELSE Reply([kv |-> LPUSH_LTRIM(c.kv, messagesKeyOf(roomId), message),
                  pres |-> c.pres],
                 201)

-----------------------------------------------------------------------------
(* Requests of the chat.  createRoom, sendMessage and deleteRoom have      *)
(* passed the router's authentication gate: their username is the          *)
(* authenticated one.  joinRoom, leaveRoom and switchRoom are not gated.   *)

ChatUsers == {"alice", "bob"}

\* createRoom requests: the body and the authenticated username
CreateRoomRequests ==
  {[name |-> n, type |-> "public", members |-> <<>>, username |-> ADMIN] :
     n \in {"general", NoName, "badword1"}}
  \cup {[name |-> "general", type |-> "public", members |-> <<>>,
         username |-> "alice"],
        [name |-> NoName, type |-> "group", members |-> <<>>,
         username |-> "alice"]}
  \cup {[name |-> NoName, type |-> "private", members |-> m,
         username |-> "alice"] :
          m \in {<<"bob">>, <<"x:bob">>, <<"bob", "carol">>, <<"Alice">>}}

\* the room ids a request may name: every id generated so far, a malformed
\* one, none
RequestRoomIds == {IdPool[i] : i \in 1..nIds} \cup {"no id", NoId}

\* the state a chat request leaves but for sendLog; usedId: the request
\* stored what it drew from generateId, of which a behaviour hands out at most
\* max; failed: a store command of the burst limiter threw; unpublished: a
\* publish call threw
ChatRespondWith(out, usedId, max, failed, unpublished) ==
  /\ usedId => nIds < max
  /\ kv' = out.c.kv
  /\ presLog' = out.c.pres
  /\ nIds' = IF usedId THEN nIds + 1 ELSE nIds
  /\ resp' = [Response("chat", out.status, NoName, NoToken, 0)
                EXCEPT !.error = out.error, !.failed = failed,
                       !.unpublished = unpublished]
  /\ now' = now
  /\ UNCHANGED <<ms, nTokens, tokLog, inflight, rateLog>>

\* the state a chat request leaves when every call it makes answers
ChatRespond(out, usedId, max) ==
  ChatRespondWith(out, usedId, max, FALSE, FALSE) /\ sendLog' = sendLog

Chat == [kv |-> kv, pres |-> presLog]

\* POST createRoom
CreateRoom(R, max) ==
  \E data \in R :
    LET out == handleCreateRoom(Chat, data.name, data.type, data.members,
                                data.username, generateId)
    IN  ChatRespond(out, out.status = 201, max)

\* POST joinRoom
JoinRoom(U, max) ==
  \E roomId \in RequestRoomIds, username \in U :
    ChatRespond(handleJoinRoom(Chat, roomId, username), FALSE, max)

\* POST leaveRoom
LeaveRoom(U, max) ==
  \E roomId \in RequestRoomIds, username \in U :
    ChatRespond(handleLeaveRoom(Chat, roomId, username), FALSE, max)

\* POST switchRoom
SwitchRoom(U, max) ==
  \E previousRoomId \in RequestRoomIds \ {"no id"},
     nextRoomId \in RequestRoomIds \ {"no id"}, username \in U :
    ChatRespond(handleSwitchRoom(Chat, previousRoomId, nextRoomId, username),
                FALSE, max)

\* POST sendMessage.  The short-window counter of the burst limiter, which
\* every request in a public room increments, is followed up to
\* MaxOverLimit above its limit.
SendMessage(U, C, max) ==
  \E roomId \in RequestRoomIds \ {NoId}, username \in U, content \in C :
    LET out == handleSendMessage(Chat, roomId, username, content, generateId)
        shortKey == <<CHAT_BURST_PREFIX, "s:", roomId, username>>
    IN  /\ EXISTS(kv, shortKey)
             => GET(kv, shortKey) < CHAT_BURST_SHORT_LIMIT + MaxOverLimit
        /\ ChatRespond(out, out.status = 201, max)

\* DELETE deleteRoom
DeleteRoom(U, max) ==
  \E roomId \in RequestRoomIds \ {NoId, "no id"}, username \in U :
    ChatRespond(handleDeleteRoom(Chat, roomId, username), FALSE, max)

(* Rooms and presence: two users, the administrator, rooms of every kind,  *)
(* and a clock that passes the presence TTL.                               *)

RoomUsers == ChatUsers \cup {NoName}

HalfDay == ROOM_PRESENCE_TTL_SECONDS \div 2

RoomInstants == {b * HalfDay : b \in 0..MaxHalfDays}

RoomsTick == \E t \in RoomInstants : Pass(t)

RoomsNext ==
  \/ CreateRoom(CreateRoomRequests, MaxRooms)
  \/ JoinRoom(RoomUsers, MaxRooms)
  \/ LeaveRoom(ChatUsers, MaxRooms)
  \/ SwitchRoom(ChatUsers, MaxRooms)
  \/ DeleteRoom(ChatUsers \cup {ADMIN}, MaxRooms)
  \/ RoomsTick

SpecRooms == Init /\ [][RoomsNext]_vars

(* Messages: public and private rooms, one sender, and a clock that steps  *)
(* by the minimum interval between two messages.  What any other user's    *)
(* send would do in a state is handleSendMessage applied to that state.    *)

MessageRooms ==
  {[name |-> "general", type |-> "public", members |-> <<>>,
    username |-> ADMIN],
   [name |-> NoName, type |-> "private", members |-> <<"bob">>,
    username |-> "alice"]}

MessageInstants ==
  {a * CHAT_MIN_INTERVAL_SECONDS : a \in 0..MaxShortTicks}

MessagesTick == \E t \in MessageInstants : Pass(t)

MessagesNext ==
  \/ CreateRoom(MessageRooms, MaxIds)
  \/ SendMessage({"alice"}, RawContents, MaxIds)
  \/ MessagesTick

SpecMessages == Init /\ [][MessagesNext]_vars

-----------------------------------------------------------------------------
(* Requests that interleave.  A handler runs from one await to the next    *)
(* without interruption; between two awaits other requests run.  A request *)
(* in flight is inflight[p]: its operation, the await it stands before     *)
(* (pc), and its locals.                                                   *)

Procs == 1..MaxInFlight

Idle(p) == p \notin DOMAIN inflight

Enter(p, locals) == [q \in DOMAIN inflight \cup {p} |->
                       IF q = p THEN locals ELSE inflight[q]]

Leave(p) == [q \in DOMAIN inflight \ {p} |-> inflight[q]]

\* the ids of the stored rooms, and a malformed one
StoredRoomIds ==
  {r \in RequestRoomIds : r = "no id" \/ EXISTS(kv, roomKeyOf(r))}

\* a request answers before its first store write of a message, or goes on
\* to the lpush
Checked(p, checked, locals) ==
  /\ kv' = checked.c.kv
  /\ presLog' = checked.c.pres
  /\ IF checked.status # 0
     THEN /\ resp' = [Response("chat", checked.status, NoName, NoToken, 0)
                        EXCEPT !.error = checked.error]
          /\ inflight' = inflight
     ELSE /\ resp' = NoResponse
          /\ inflight' = Enter(p, locals)
  /\ UNCHANGED <<now, ms, nTokens, nIds, tokLog, sendLog, rateLog>>

\* sendMessage arrives and runs up to its lpush
StartSendMessage(U, C) ==
  \E p \in Procs, roomId \in StoredRoomIds, username \in U, content \in C :
    /\ Idle(p)
    /\ Checked(p, sendMessageChecks(Chat, roomId, username, content),
               [op |-> "sendMessage", pc |-> "lpush", roomId |-> roomId,
                username |-> username, content |-> content])

\* generateRyoReply arrives and runs up to its lpush
StartRyoReply(T) ==
  \E p \in Procs, roomId \in StoredRoomIds, prompt \in {NoPrompt, <<"hi">>},
     generationFails \in BOOLEAN, replyText \in T :
    /\ Idle(p)
    /\ Checked(p, ryoReplyChecks(Chat, roomId, prompt, generationFails),
               [op |-> "generateRyoReply", pc |-> "lpush", roomId |-> roomId,
                username |-> ADMIN, content |-> replyText])

\* redis.lpush of the request's message
Push(max) ==
  \E p \in DOMAIN inflight :
    /\ inflight[p].pc = "lpush"
    /\ nIds < max
    /\ kv' = LPUSH(kv, messagesKeyOf(inflight[p].roomId),
                   messageOf(generateId, inflight[p].username,
                             inflight[p].content))
    /\ nIds' = nIds + 1
    /\ inflight' = [inflight EXCEPT ![p].pc = "ltrim"]
    /\ resp' = NoResponse
    /\ UNCHANGED <<now, ms, nTokens, tokLog, presLog, sendLog, rateLog>>

\* redis.ltrim of the request's room; generateRyoReply answers after it
Trim ==
  \E p \in DOMAIN inflight :
    /\ inflight[p].pc = "ltrim"
    /\ kv' = LTRIM(kv, messagesKeyOf(inflight[p].roomId), LTRIM_STOP)
    /\ IF inflight[p].op = "sendMessage"
       THEN /\ inflight' = [inflight EXCEPT ![p].pc = "update"]
            /\ resp' = NoResponse
       ELSE /\ inflight' = Leave(p)
            /\ resp' = Response("chat", 201, NoName, NoToken, 0)
    /\ UNCHANGED <<now, ms, nTokens, nIds, tokLog, presLog, sendLog, rateLog>>

\* sendMessage rewrites the user record, refreshes the presence and answers
Update ==
  \E p \in DOMAIN inflight :
    /\ inflight[p].pc = "update"
    /\ LET c == sendMessageUpdate(Chat, inflight[p].roomId,
                                  ToLower(inflight[p].username))
       IN  kv' = c.kv /\ presLog' = c.pres
    /\ inflight' = Leave(p)
    /\ resp' = Response("chat", 201, NoName, NoToken, 0)
    /\ UNCHANGED <<now, ms, nTokens, nIds, tokLog, sendLog, rateLog>>

(* The message log of one room: the administrator's messages and the       *)
(* replies generated in his name, all of one content, so that the log is   *)
(* told by its length.                                                     *)

LogRooms ==
  {[name |-> NoName, type |-> "private", members |-> <<"bob">>,
    username |-> ADMIN]}

LogNext ==
  \/ CreateRoom(LogRooms, 1)
  \/ StartSendMessage({ADMIN}, {<<"hi">>})
  \/ StartRyoReply({<<"hi">>})
  \/ Push(MaxLogIds)
  \/ Trim
  \/ Update

SpecLog == Init /\ [][LogNext]_vars

(* Reading the log while it is written.  Every stored entry is what        *)
(* JSON.stringify made of a message, so handleGetMessages drops none as     *)
(* malformed.                                                               *)

LRANGE_oldest(s, k, start, stop) ==
  IF ~EXISTS(s, k) THEN <<>>
  ELSE LET l == GET(s, k)
           n == IF stop + 1 < Len(l) THEN stop + 1 ELSE Len(l)
       IN  SubSeq(l, Len(l) - n + 1, Len(l))

\* redis.lrange(key, start, stop), 0 <= start <= stop
LRANGE(s, k, start, stop) ==
  IF ~EXISTS(s, k) THEN <<>>
  ELSE SubSeq(GET(s, k), start + 1,
              IF stop + 1 < Len(GET(s, k)) THEN stop + 1 ELSE Len(GET(s, k)))

\* the newest messages getMessages returns: lrange(messagesKey, 0, 19)
RECENT_STOP == 19

\* handleGetMessages: [status, messages]
handleGetMessages(s, roomId) ==
  IF ~assertValidRoomId(roomId) THEN [status |-> 500, messages |-> <<>>]
  ELSE IF ~EXISTS(s, roomKeyOf(roomId))
  THEN [status |-> 404, messages |-> <<>>]
  ELSE [status |-> 200,
        messages |-> LRANGE(s, messagesKeyOf(roomId), 0, RECENT_STOP)]

\* GET getMessages: the store is read
GetMessages ==
  \E roomId \in StoredRoomIds :
    /\ resp' = Response("chat", handleGetMessages(kv, roomId).status, NoName,
                        NoToken, 0)
    /\ UNCHANGED <<kv, now, ms, nTokens, nIds, tokLog, presLog, inflight,
                   sendLog, rateLog>>

RecentNext == LogNext \/ GetMessages

SpecRecent == Init /\ [][RecentNext]_vars

-----------------------------------------------------------------------------
(* The burst limiter: one public room and one sender, whose requests the   *)
(* history sendLog records with the instant they arrived at.               *)

\* the latest MaxSendLog arrivals, the newest last
Logged(log, roomId, username, status, error) ==
  LET l == Append(log, [roomId |-> roomId, username |-> ToLower(username),
                        at |-> now, ms |-> ms, status |-> status,
                        error |-> error])
  IN  IF Len(l) > MaxSendLog THEN Tail(l) ELSE l

\* POST sendMessage to a stored room, recorded in sendLog when logged; the
\* store throws at the command failAt of the burst limiter.  The
\* short-window counter is followed up to MaxOverLimit above its limit.
SendMessageUnless(U, C, F, max, logged) ==
  \E roomId \in StoredRoomIds \ {"no id"}, username \in U, content \in C,
     failAt \in F :
    LET out == handleSendMessageUnless(Chat, roomId, username, content,
                                       generateId, failAt)
        shortKey == <<CHAT_BURST_PREFIX, "s:", roomId, username>>
    IN  /\ EXISTS(kv, shortKey)
             => GET(kv, shortKey) < CHAT_BURST_SHORT_LIMIT + MaxOverLimit
        /\ ChatRespondWith(out, out.status = 201, max,
                           burstThrows(Chat, roomId, username, content,
                                       failAt),
                           FALSE)
        /\ sendLog' = IF logged
                      THEN Logged(sendLog, roomId, username, out.status,
                                  out.error)
                      ELSE sendLog

\* POST sendMessage, the store answering, recorded in sendLog
BurstSend(U, C, max) == SendMessageUnless(U, C, {NoFailure}, max, TRUE)

BurstRooms ==
  {[name |-> "general", type |-> "public", members |-> <<>>,
    username |-> ADMIN]}

\* two contents that differ after the filters, so that a send need not be
\* a duplicate
BurstContents == {<<"hi">>, <<"badword1">>}

\* SpecBurst: whole seconds, past the end of the first short window
BurstInstants ==
  {a * CHAT_MIN_INTERVAL_SECONDS : a \in 0..MaxBurstSteps}

BurstTick == \E t \in BurstInstants : Pass(t)

BurstNext ==
  \/ CreateRoom(BurstRooms, 1)
  \/ BurstSend({"alice"}, BurstContents, MaxBurstIds)
  \/ BurstTick

SpecBurst == Init /\ [][BurstNext]_vars

\* SpecInterval: the seconds around the minimum interval, and milliseconds
\* within them
IntervalInstants ==
  {<<t, m>> : t \in 0..MaxIntervalSeconds, m \in {0, 800, 900}}

IntervalTick == \E i \in IntervalInstants : PassTo(i[1], i[2])

IntervalNext ==
  \/ CreateRoom(BurstRooms, 1)
  \/ BurstSend({"alice"}, BurstContents, MaxIntervalIds)
  \/ IntervalTick

SpecInterval == Init /\ [][IntervalNext]_vars

-----------------------------------------------------------------------------
(* The router's generic rate limiter.  checkRateLimit reads the counter    *)
(* with one command and writes it with another; between the two, and       *)
(* between checkRateLimit and the handler, other requests run.             *)

rateKeyOf(action, identifier) == <<RATE_LIMIT_PREFIX, action, identifier>>

\* milliseconds from the instant a to now
Elapsed(a) == (now - a.at) * 1000 + (ms - a.ms)

\* what redis.get answers for a missing key, as parseInt(current) would
\* read it; a stored counter is at least 1
NoCount == 0

\* checkRateLimit: const current = await redis.get(key)
rateRead(s, key) == IF EXISTS(s, key) THEN GET(s, key) ELSE NoCount

\* checkRateLimit after redis.get has answered current: [s, allowed]
rateWrite(s, key, current) ==
  IF current = NoCount
  THEN [s |-> SETEX(s, key, 1, RATE_LIMIT_WINDOW_SECONDS), allowed |-> TRUE]
  ELSE IF current >= RATE_LIMIT_ATTEMPTS THEN [s |-> s, allowed |-> FALSE]
  ELSE [s |-> INCR(s, key), allowed |-> TRUE]

\* a limiter whose catch rejects the request
rateFailed_closed(s) == [s |-> s, allowed |-> FALSE]

\* checkRateLimit when a store command throws: the catch returns true
rateFailed(s) == [s |-> s, allowed |-> TRUE]

TooManyRequests == "Too many requests, please slow down"

\* the history of a request checkRateLimit allowed: it is counted in the
\* window of its key, which the first allowed request opens and which is
\* RATE_LIMIT_WINDOW_SECONDS long
Allowed(log, key) ==
  [x \in DOMAIN log \cup {key} |->
     IF x # key THEN log[x]
     ELSE IF key \in DOMAIN log
             /\ Elapsed(log[key]) < RATE_LIMIT_WINDOW_SECONDS * 1000
     THEN [log[key] EXCEPT !.count = @ + 1]
     ELSE [at |-> now, ms |-> ms, count |-> 1]]

\* the locals of a request for a sensitive action; current is what
\* checkRateLimit has read
Sensitive(action, identifier, pc, current) ==
  [op |-> action, pc |-> pc, roomId |-> NoId, username |-> identifier,
   content |-> NoContent, current |-> current]

\* POST of a sensitive action arrives; checkRateLimit sends its redis.get,
\* which throws when fails.  Of a window, max allowed requests are followed
StartSensitive(A, I, F, max) ==
  \E p \in Procs, action \in A, identifier \in I, fails \in F :
    LET key == rateKeyOf(action, ToLower(identifier))
    IN  /\ Idle(p)
        /\ key \in DOMAIN rateLog => rateLog[key].count < max
        /\ IF ~fails
           THEN /\ inflight' = Enter(p, Sensitive(action, identifier, "rate",
                                                  rateRead(kv, key)))
                /\ rateLog' = rateLog
                /\ resp' = NoResponse
           ELSE IF rateFailed(kv).allowed
           THEN /\ inflight' = Enter(p, Sensitive(action, identifier,
                                                  "handler", NoCount))
                /\ rateLog' = Allowed(rateLog, key)
                /\ resp' = [NoResponse EXCEPT !.failed = TRUE]
           ELSE /\ inflight' = inflight
                /\ rateLog' = rateLog
                /\ resp' = [Response("other", 429, NoName, NoToken, 0)
                              EXCEPT !.error = TooManyRequests,
                                     !.failed = TRUE]
        /\ UNCHANGED <<kv, now, ms, nTokens, nIds, tokLog, presLog, sendLog>>

\* checkRateLimit answers: the request is rejected with 429 or goes on to
\* its handler
RateDecide(F) ==
  \E p \in DOMAIN inflight, fails \in F :
    LET key == rateKeyOf(inflight[p].op, ToLower(inflight[p].username))
        w == IF fails THEN rateFailed(kv)
                      ELSE rateWrite(kv, key, inflight[p].current)
    IN  /\ inflight[p].pc = "rate"
        /\ kv' = w.s
        /\ IF w.allowed
           THEN /\ inflight' = [inflight EXCEPT ![p].pc = "handler"]
                /\ rateLog' = Allowed(rateLog, key)
                /\ resp' = [NoResponse EXCEPT !.failed = fails]
           ELSE /\ inflight' = Leave(p)
                /\ rateLog' = rateLog
                /\ resp' = [Response("other", 429, NoName, NoToken, 0)
                              EXCEPT !.error = TooManyRequests,
                                     !.failed = fails]
        /\ UNCHANGED <<now, ms, nTokens, nIds, tokLog, presLog, sendLog>>

\* the handler of an allowed createUser request
HandleCreateUser(max) ==
  \E p \in DOMAIN inflight :
    LET username == inflight[p].username
        out == handleCreateUser(kv, username, NoPassword, generateAuthToken)
    IN  /\ inflight[p].pc = "handler"
        /\ inflight[p].op = "createUser"
        /\ out.token # NoToken => nTokens < max
        /\ kv' = out.s
        /\ resp' = Response("createUser", out.status, ToLower(username),
                            out.token, 0)
        /\ tokLog' = IF out.token # NoToken
                     THEN LogIssue(tokLog, out.token, ToLower(username))
                     ELSE tokLog
        /\ nTokens' = IF out.token # NoToken THEN nTokens + 1 ELSE nTokens
        /\ inflight' = Leave(p)
        /\ UNCHANGED <<now, ms, nIds, presLog, sendLog, rateLog>>

RateInstants ==
  {a * RATE_LIMIT_WINDOW_SECONDS : a \in 0..MaxRateWindows}

RateTick == \E t \in RateInstants : Pass(t)

\* SpecRate: createUser requests of two clients, the store answering
RateNext ==
  \/ StartSensitive({"createUser"}, {"alice", "bob"}, {FALSE},
                    RATE_LIMIT_ATTEMPTS + MaxInFlight)
  \/ RateDecide({FALSE})
  \/ HandleCreateUser(MaxRateTokens)
  \/ RateTick

SpecRate == Init /\ [][RateNext]_vars

(* A store that may throw at any command of the two limiters: createUser   *)
(* requests of one client, and one sender in one public room.              *)

FailNext ==
  \/ CreateRoom(BurstRooms, 1)
  \/ SendMessageUnless({"alice"}, {<<"hi">>}, {NoFailure} \cup BurstCommands,
                       MaxFailIds, FALSE)
  \/ StartSensitive({"createUser"}, {"alice"}, BOOLEAN, MaxFailAllowed)
  \/ RateDecide(BOOLEAN)
  \/ HandleCreateUser(MaxRateTokens)

SpecFailOpen == Init /\ [][FailNext]_vars

-----------------------------------------------------------------------------
(* Publishing.  A handler publishes to Pusher once its store changes are   *)
(* committed, inside a try whose catch logs the error; pusher.trigger      *)
(* throws when publishFails.                                               *)

\* a catch that hands the error on to the handler's outer catch
publishCaught_fatal(out) == Reply(out.c, 500)

\* catch (pusherError) { logError(...) }: the handler goes on to its response
publishCaught(out) == out

\* try { await publish } catch
published(out, publishFails) ==
  IF publishFails THEN publishCaught(out) ELSE out

LREM_head(s, k, v) ==
  IF ~EXISTS(s, k) THEN s
  ELSE IF Len(GET(s, k)) = 1 THEN DEL(s, {k})
  ELSE SET(s, k, Tail(GET(s, k)))

\* redis.lrem(key, 1, v): the first entry equal to v goes; Redis drops a
\* list that has become empty
LREM(s, k, v) ==
  LET l == GET(s, k)
      i == CHOOSE j \in 1..Len(l) : l[j] = v /\ \A h \in 1..(j - 1) : l[h] # v
      rest == SubSeq(l, 1, i - 1) \o SubSeq(l, i + 1, Len(l))
  IN  IF ~EXISTS(s, k) \/ \A j \in 1..Len(l) : l[j] # v THEN s
      ELSE IF rest = <<>> THEN DEL(s, {k})
      ELSE SET(s, k, rest)

\* handleDeleteMessage before it publishes
handleDeleteMessage(c, roomId, messageId, username) ==
  LET listKey == messagesKeyOf(roomId)
      messagesRaw == IF EXISTS(c.kv, listKey) THEN GET(c.kv, listKey) ELSE <<>>
      found == {j \in 1..Len(messagesRaw) : messagesRaw[j].id = messageId}
      targetRaw == messagesRaw[CHOOSE j \in found : \A h \in found : j <= h]
  IN  IF roomId = NoId \/ messageId = NoId THEN Reply(c, 400)
      ELSE IF ~isAdmin(username) THEN Reply(c, 403)
      ELSE IF ~EXISTS(c.kv, roomKeyOf(roomId)) THEN Reply(c, 404)
      ELSE IF found = {} THEN Reply(c, 404)
      ELSE Reply([kv |-> LREM(c.kv, listKey, targetRaw), pres |-> c.pres],
                 200)

\* handleLeaveRoom reaches one of its publish calls: the presence entry was
\* there, and the room is private or its user count has changed
leaveRoomPublishes(c, roomId, originalUsername) ==
  LET roomObj == GET(c.kv, roomKeyOf(roomId))
      presenceKey == presenceKeyOf(roomId, ToLower(originalUsername))
      userCount ==
        refreshRoomUserCount(DEL(c.kv, {presenceKey}), roomId).userCount
  IN  /\ EXISTS(c.kv, presenceKey)
      /\ roomObj.type = "private" \/ userCount # roomObj.userCount

\* POST createRoom with its publish calls
CreateRoomPublishing(R, P, max) ==
  \E data \in R, publishFails \in P :
    LET out == handleCreateRoom(Chat, data.name, data.type, data.members,
                                data.username, generateId)
        publishes == out.status = 201
    IN  /\ ChatRespondWith(IF publishes THEN published(out, publishFails)
                                        ELSE out,
                           out.status = 201, max, FALSE,
                           publishes /\ publishFails)
        /\ sendLog' = sendLog

\* POST joinRoom with its publish calls
JoinRoomPublishing(U, P, max) ==
  \E roomId \in StoredRoomIds, username \in U, publishFails \in P :
    LET out == handleJoinRoom(Chat, roomId, username)
        publishes == out.status = 200
    IN  /\ ChatRespondWith(IF publishes THEN published(out, publishFails)
                                        ELSE out,
                           FALSE, max, FALSE, publishes /\ publishFails)
        /\ sendLog' = sendLog

\* POST leaveRoom with its publish calls
LeaveRoomPublishing(U, P, max) ==
  \E roomId \in StoredRoomIds, username \in U, publishFails \in P :
    LET out == handleLeaveRoom(Chat, roomId, username)
        publishes == /\ out.status = 200
                     /\ leaveRoomPublishes(Chat, roomId, username)
    IN  /\ ChatRespondWith(IF publishes THEN published(out, publishFails)
                                        ELSE out,
                           FALSE, max, FALSE, publishes /\ publishFails)
        /\ sendLog' = sendLog

\* POST switchRoom with its publish calls
SwitchRoomPublishing(U, P, max) ==
  \E previousRoomId \in StoredRoomIds \ {"no id"},
     nextRoomId \in StoredRoomIds \ {"no id"}, username \in U,
     publishFails \in P :
    LET out == handleSwitchRoom(Chat, previousRoomId, nextRoomId, username)
        publishes == out.status = 200
    IN  /\ ChatRespondWith(IF publishes THEN published(out, publishFails)
                                        ELSE out,
                           FALSE, max, FALSE, publishes /\ publishFails)
        /\ sendLog' = sendLog

\* POST sendMessage with its publish calls
SendMessagePublishing(U, C, P, max) ==
  \E roomId \in StoredRoomIds, username \in U, content \in C,
     publishFails \in P :
    LET out == handleSendMessage(Chat, roomId, username, content, generateId)
        publishes == out.status = 201
        shortKey == <<CHAT_BURST_PREFIX, "s:", roomId, username>>
    IN  /\ EXISTS(kv, shortKey)
             => GET(kv, shortKey) < CHAT_BURST_SHORT_LIMIT + MaxOverLimit
        /\ ChatRespondWith(IF publishes THEN published(out, publishFails)
                                        ELSE out,
                           out.status = 201, max, FALSE,
                           publishes /\ publishFails)
        /\ sendLog' = sendLog

\* DELETE deleteRoom with its publish calls
DeleteRoomPublishing(U, P, max) ==
  \E roomId \in StoredRoomIds \ {"no id"}, username \in U,
     publishFails \in P :
    LET out == handleDeleteRoom(Chat, roomId, username)
        publishes == out.status = 200
    IN  /\ ChatRespondWith(IF publishes THEN published(out, publishFails)
                                        ELSE out,
                           FALSE, max, FALSE, publishes /\ publishFails)
        /\ sendLog' = sendLog

\* DELETE deleteMessage with its publish calls
DeleteMessagePublishing(U, P, max) ==
  \E roomId \in StoredRoomIds \ {"no id"},
     messageId \in {IdPool[i] : i \in 1..nIds}, username \in U,
     publishFails \in P :
    LET out == handleDeleteMessage(Chat, roomId, messageId, username)
        publishes == out.status = 200
    IN  /\ ChatRespondWith(IF publishes THEN published(out, publishFails)
                                        ELSE out,
                           FALSE, max, FALSE, publishes /\ publishFails)
        /\ sendLog' = sendLog

PublishRooms ==
  {[name |-> "general", type |-> "public", members |-> <<>>,
    username |-> ADMIN],
   [name |-> "lobby", type |-> "public", members |-> <<>>,
    username |-> "alice"],
   [name |-> NoName, type |-> "private", members |-> <<"bob", "carol">>,
    username |-> "alice"]}

\* SpecPublish: a public room and a private room of three, and Pusher
\* failing at will
PublishNext ==
  \/ CreateRoomPublishing(PublishRooms, BOOLEAN, MaxPublishIds)
  \/ JoinRoomPublishing({"alice"}, BOOLEAN, MaxPublishIds)
  \/ LeaveRoomPublishing({"alice", "bob"}, BOOLEAN, MaxPublishIds)
  \/ SwitchRoomPublishing({"alice"}, BOOLEAN, MaxPublishIds)
  \/ SendMessagePublishing({"alice"}, {<<"hi">>}, BOOLEAN, MaxPublishIds)
  \/ DeleteRoomPublishing({"alice", ADMIN}, BOOLEAN, MaxPublishIds)
  \/ DeleteMessagePublishing({"alice", ADMIN}, BOOLEAN, MaxPublishIds)

SpecPublish == Init /\ [][PublishNext]_vars

-----------------------------------------------------------------------------
(* Which rooms a caller and a channel are shown                            *)

\* sanitizeForChannel: every character outside [a-zA-Z0-9_\-.] becomes "_".
\* Of the names of the model only "x:bob" holds such a character.
sanitizeForChannel(name) == IF name = "x:bob" THEN "x_bob" ELSE name

\* getDetailedRooms: the stored rooms, each with its active users
getDetailedRooms(s) ==
  {[room |-> GET(s, k), users |-> getActiveUsersInRoom(s, k[2])] :
     k \in {x \in DOMAIN s : Len(x) = 2 /\ x[1] = CHAT_ROOM_PREFIX}}

\* filterRoomsForUser(rooms, username); username is NoName for null
filterRoomsForUser(rooms, username) ==
  IF username = NoName THEN {r \in rooms : r.room.type = "public"}
  ELSE {r \in rooms :
          \/ r.room.type = "public"
          \/ r.room.type = "private"
              /\ includes(r.room.members, ToLower(username))}

\* handleGetRooms: the rooms of the response; username is the query
\* parameter, NoName when the request has none
handleGetRooms(s, username) ==
  {r \in getDetailedRooms(s) :
     \/ r.room.type = "public"
     \/ /\ r.room.type = "private"
        /\ username # NoName
        /\ includes(r.room.members, ToLower(username))}

\* the usernames of the stored user records: SCAN match chat:users:*
StoredUsers(s) ==
  {k[2] : k \in {x \in DOMAIN s : Len(x) = 2 /\ x[1] = CHAT_USERS_PREFIX}}

PublicChannel == "chats-public"

\* the personal channel of a user
channelOf(username) == "chats-" \o sanitizeForChannel(username)

\* broadcastRoomsUpdated: the rooms-updated events it publishes
broadcastRoomsUpdated(s) ==
  LET allRooms == getDetailedRooms(s)
  IN  {[channel |-> PublicChannel,
        rooms |-> filterRoomsForUser(allRooms, NoName)]}
      \cup {[channel |-> channelOf(username),
              rooms |-> filterRoomsForUser(allRooms, username)] :
               username \in StoredUsers(s)}

\* broadcastToSpecificUsers: one rooms-updated event for each username
broadcastToSpecificUsers(s, usernames) ==
  LET allRooms == getDetailedRooms(s)
  IN  {[channel |-> channelOf(usernames[i]),
        rooms |-> filterRoomsForUser(allRooms, usernames[i])] :
         i \in DOMAIN usernames}

\* the rooms-updated events of handleLeaveRoom: when the private room is
\* deleted they go to the members it had, otherwise to everyone
leaveRoomEvents(c, roomId, originalUsername) ==
  LET out == handleLeaveRoom(c, roomId, originalUsername)
      roomObj == GET(c.kv, roomKeyOf(roomId))
      keep(m) == m # ToLower(originalUsername)
  IN  IF out.status # 200 \/ ~leaveRoomPublishes(c, roomId, originalUsername)
      THEN {}
      ELSE IF /\ roomObj.type = "private"
              /\ Len(SelectSeq(roomObj.members, keep)) <= 1
      THEN broadcastToSpecificUsers(out.c.kv, roomObj.members)
      ELSE broadcastRoomsUpdated(out.c.kv)

\* GET getRooms: the store is read
GetRooms(U) ==
  \E username \in U :
    /\ resp' = Response("chat", 200, NoName, NoToken, 0)
    /\ UNCHANGED <<kv, now, ms, nTokens, nIds, tokLog, presLog, inflight,
                   sendLog, rateLog>>

VisibleRooms ==
  {[name |-> "general", type |-> "public", members |-> <<>>,
    username |-> ADMIN],
   [name |-> NoName, type |-> "private", members |-> <<"bob">>,
    username |-> "alice"],
   [name |-> NoName, type |-> "private", members |-> <<"x:bob">>,
    username |-> "alice"]}

\* SpecVisible: public and private rooms, and callers who name themselves
\* as they like
VisibleNext ==
  \/ CreateRoom(VisibleRooms, MaxVisibleIds)
  \/ JoinRoom({"alice", "bob"}, MaxVisibleIds)
  \/ SwitchRoom({"bob", "x:bob"}, MaxVisibleIds)
  \/ LeaveRoom({"alice"}, MaxVisibleIds)
  \/ GetRooms({"alice", "bob", "x_bob", NoName})

SpecVisible == Init /\ [][VisibleNext]_vars

-----------------------------------------------------------------------------
(* Messages sent and deleted: a public and a private room, no room deleted *)

\* DELETE deleteMessage
DeleteMessage(U, max) ==
  \E roomId \in StoredRoomIds \ {"no id"},
     messageId \in {IdPool[i] : i \in 1..nIds}, username \in U :
    ChatRespond(handleDeleteMessage(Chat, roomId, messageId, username),
                FALSE, max)

DeleteNext ==
  \/ CreateRoom(MessageRooms, MaxDeleteIds)
  \/ SendMessage({"alice"}, BurstContents, MaxDeleteIds)
  \/ DeleteMessage({"alice", ADMIN}, MaxDeleteIds)

SpecDelete == Init /\ [][DeleteNext]_vars

-----------------------------------------------------------------------------
(* Switching between rooms: public rooms, which only switchRoom marks a    *)
(* user present in, and a private room of two                              *)

SwitchRooms ==
  {[name |-> "general", type |-> "public", members |-> <<>>,
    username |-> ADMIN],
   [name |-> NoName, type |-> "private", members |-> <<"bob">>,
    username |-> "alice"]}

SwitchNext ==
  \/ CreateRoom(SwitchRooms, MaxSwitchRooms)
  \/ SwitchRoom({"alice", "bob"}, MaxSwitchRooms)
  \/ RoomsTick

SpecSwitch == Init /\ [][SwitchNext]_vars

-----------------------------------------------------------------------------
(* What is stored as content: messages of a user and replies generated in  *)
(* the administrator's name, of any length the language model answers with *)

\* POST generateRyoReply, run to completion
GenerateRyoReply(T, max) ==
  \E roomId \in StoredRoomIds, prompt \in {NoPrompt, <<"hi">>},
     generationFails \in BOOLEAN, replyText \in T :
    LET out == handleGenerateRyoReply(Chat, roomId, prompt, generationFails,
                                      replyText, generateId)
    IN  ChatRespond(out, out.status = 201, max)

ContentNext ==
  \/ CreateRoom(MessageRooms, MaxContentIds)
  \/ SendMessage({"alice"}, RawContents, MaxContentIds)
  \/ GenerateRyoReply(RyoReplies, MaxContentIds)

SpecContent == Init /\ [][ContentNext]_vars

-----------------------------------------------------------------------------
(* ensureUserExists, command by command: redis.get, redis.setnx and, for   *)
(* a call whose setnx found the key taken, a second redis.get.  A call is  *)
(* inflight[p] and stays there once it has returned (pc "returned").       *)

\* the record a call creates: { username, lastActive: getCurrentTimestamp() }
newUser(username) == [username |-> username, lastActive |-> now]

\* a set that overwrites and always reports that it created the key
setnx_always(s, k, v) == [s |-> SET(s, k, v), created |-> TRUE]

\* redis.setnx with its reply
setnx(s, k, v) == [s |-> SETNX(s, k, v), created |-> ~EXISTS(s, k)]

\* the call lost the race: it reads the key again and throws if it is gone
ensureLost_throws(s, k) == [userData |-> NoName, error |-> TRUE]

ensureLost(s, k) ==
  IF EXISTS(s, k) THEN [userData |-> GET(s, k), error |-> FALSE]
  ELSE [userData |-> NoName, error |-> TRUE]

EnsureCalls == 1..MaxEnsureCalls

EnsureStep(p, locals) ==
  /\ inflight' = Enter(p, locals)
  /\ resp' = NoResponse
  /\ UNCHANGED <<now, ms, nTokens, nIds, tokLog, presLog, sendLog, rateLog>>

\* a call of ensureUserExists with a username that passes its checks
EnsureStart(U) ==
  \E p \in EnsureCalls, username \in U :
    /\ Idle(p)
    /\ ensureUserExists(kv, username).error = "none"
    /\ kv' = kv
    /\ EnsureStep(p, [op |-> "ensureUserExists", pc |-> "get",
                      username |-> username, created |-> FALSE,
                      reads |-> 0, userData |-> NoName, error |-> FALSE])

\* redis.get(userKey): the call returns the record, or goes on to create it
EnsureGet ==
  \E p \in DOMAIN inflight :
    LET userKey == userKeyOf(inflight[p].username)
    IN  /\ inflight[p].pc = "get"
        /\ kv' = kv
        /\ EnsureStep(p, IF EXISTS(kv, userKey)
                         THEN [inflight[p] EXCEPT !.pc = "returned",
                                                  !.reads = 1,
                                                  !.userData = GET(kv, userKey)]
                         ELSE [inflight[p] EXCEPT !.pc = "setnx",
                                                  !.reads = 1,
                                                  !.userData =
                                                    newUser(inflight[p].username)])

\* redis.setnx(userKey, newUser): the call that created the key returns
EnsureSetnx ==
  \E p \in DOMAIN inflight :
    LET w == setnx(kv, userKeyOf(inflight[p].username), inflight[p].userData)
    IN  /\ inflight[p].pc = "setnx"
        /\ kv' = w.s
        /\ EnsureStep(p, IF w.created
                         THEN [inflight[p] EXCEPT !.pc = "returned",
                                                  !.created = TRUE]
                         ELSE [inflight[p] EXCEPT !.pc = "reget"])

\* the second redis.get of a call that did not create the key
EnsureReget ==
  \E p \in DOMAIN inflight :
    LET r == ensureLost(kv, userKeyOf(inflight[p].username))
    IN  /\ inflight[p].pc = "reget"
        /\ kv' = kv
        /\ EnsureStep(p, [inflight[p] EXCEPT !.pc = "returned",
                                             !.reads = 2,
                                             !.userData = r.userData,
                                             !.error = r.error])

EnsureTick == \E t \in 0..MaxEnsureSeconds : Pass(t)

\* SpecEnsure: calls for two usernames that have no record at first
EnsureNext ==
  \/ EnsureStart({"alice", "bob"})
  \/ EnsureGet
  \/ EnsureSetnx
  \/ EnsureReget
  \/ EnsureTick

SpecEnsure == Init /\ [][EnsureNext]_vars

-----------------------------------------------------------------------------
(* Validation as the claims speak of it                                    *)

\* validate(username, token, allowExpired = false) succeeds in key space s
StrictValid(s, username, token) == validateAuth(s, username, token, FALSE).valid

\* validate(username, token, allowExpired = true) answers valid, expired
GraceValid(s, username, token) ==
  LET v == validateAuth(s, username, token, TRUE) IN v.valid /\ v.expired

\* the spellings of a stored username
SpellingsOf(username) == {n \in Names : ToLower(n) = username}

-----------------------------------------------------------------------------
(* Claims                                                                  *)

\* C1: a token an issuing operation (createUser, generateToken,
\* authenticateWithPassword, refreshToken) has just returned passes strict
\* validation, valid and not expired, under every spelling of the username
\* it was issued to.
C1_IssuedTokenValidates ==
  resp.token # NoToken =>
    \A n \in SpellingsOf(resp.username) :
      LET v == validateAuth(kv, n, resp.token, FALSE)
      IN  v.valid /\ ~v.expired

\* a lapsed token was exchanged within its grace period, and the new token
\* has just been returned
C1_Witness ==
  /\ resp.action = "refreshToken"
  /\ resp.token # NoToken
  /\ now >= USER_EXPIRATION_TIME

\* the tokens handed out to username so far
TokensOf(username) == {t \in DOMAIN tokLog : tokLog[t].user = username}

\* the request of this step revoked or replaced no token
NoneEnded == \A t \in DOMAIN tokLog : tokLog'[t].ended = tokLog[t].ended

\* the step is an issuance by createUser, generateToken or
\* authenticateWithPassword that names no token to replace
IssuesFurther ==
  /\ resp'.token # NoToken
  /\ resp'.action \in {"createUser", "generateToken",
                       "authenticateWithPassword"}
  /\ NoneEnded

\* the step is a request that succeeded without handing out a token and
\* without revoking one: a validation
Validates ==
  /\ now' = now
  /\ resp'.action = "other"
  /\ resp'.status = 200
  /\ NoneEnded

\* C2: an issuance of a further token (createUser with the password of an
\* existing user, generateToken, authenticateWithPassword without oldToken)
\* and a validation leave every token strictly valid that was strictly
\* valid before and has not been revoked.
C2_IssuanceKeepsEarlierTokens ==
  [][(IssuesFurther \/ Validates) =>
       \A t \in DOMAIN tokLog :
         (tokLog[t].ended = "no" /\ StrictValid(kv, tokLog[t].user, t))
           => StrictValid(kv', tokLog[t].user, t)]_vars

\* C3: a token exchanged by refreshToken at second r fails strict
\* validation; validation with allowExpired answers valid and expired
\* before r + 365 days and fails from then on.
C3_RefreshedTokenInGrace ==
  \A t \in DOMAIN tokLog :
    tokLog[t].ended = "refreshed" =>
      LET u == tokLog[t].user
          r == tokLog[t].at
      IN  /\ ~StrictValid(kv, u, t)
          /\ now < r + TOKEN_GRACE_PERIOD => GraceValid(kv, u, t)
          /\ now >= r + TOKEN_GRACE_PERIOD
                => ~validateAuth(kv, u, t, TRUE).valid

\* C4: a token revoked by logoutCurrent is in no key that validation
\* consults, so it fails strict validation.
C4_LoggedOutTokenInvalid ==
  \A t \in DOMAIN tokLog :
    tokLog[t].ended = "logout" => ~StrictValid(kv, tokLog[t].user, t)

\* C5: when logoutAllDevices of a username has completed, no token
\* validates for that username in either mode, its last-token record is
\* gone, refreshToken with any of its tokens is rejected, and every token
\* of another username validates as it did before.
C5_LogoutAllRevokesAll ==
  [][resp'.action = "logoutAllDevices" =>
       LET u == resp'.username
       IN  /\ \A t \in DOMAIN tokLog, n \in SpellingsOf(u) :
                 /\ ~validateAuth(kv', n, t, FALSE).valid
                 /\ ~validateAuth(kv', n, t, TRUE).valid
                 /\ handleRefreshToken(kv', n, t, TokenPool[nTokens + 1]).status
                      = 401
           /\ ~EXISTS(kv', lastTokenKeyOf(u))
           /\ \A t \in DOMAIN tokLog :
                 tokLog[t].user # u =>
                   /\ StrictValid(kv', tokLog[t].user, t)
                        = StrictValid(kv, tokLog[t].user, t)
                   /\ validateAuth(kv', tokLog[t].user, t, TRUE).valid
                        = validateAuth(kv, tokLog[t].user, t, TRUE).valid]_vars

\* logoutAllDevices has just revoked two tokens of one user while a token
\* of another user is valid
C5_Witness ==
  /\ resp.action = "logoutAllDevices"
  /\ Cardinality({t \in TokensOf(resp.username) :
                    tokLog[t].ended = "logoutAll"}) >= 2
  /\ \E t \in DOMAIN tokLog :
       tokLog[t].user # resp.username /\ StrictValid(kv, tokLog[t].user, t)

\* C6: the deletedCount logoutAllDevices returns is the number of tokens
\* of the username that were active (strictly valid) when it was called.
C6_DeletedCountIsTokenCount ==
  [][resp'.action = "logoutAllDevices" =>
       resp'.deletedCount
         = Cardinality({t \in DOMAIN tokLog :
                          StrictValid(kv, resp'.username, t)})]_vars

\* token t, never revoked or exchanged, lapsed by TTL at the second e
\* = its last strict validation (or issuance) + 90 days, and e + 365 days
\* have not passed
LapsedInGrace(t) ==
  /\ tokLog[t].ended = "no"
  /\ now >= tokLog[t].at + USER_TTL_SECONDS
  /\ now < tokLog[t].at + USER_TTL_SECONDS + TOKEN_GRACE_PERIOD

\* refreshToken(username, t) would succeed now
Refreshable(t) ==
  handleRefreshToken(kv, tokLog[t].user, t, TokenPool[nTokens + 1]).status = 201

\* C7: of a username that holds several tokens, each token whose active
\* entry has lapsed by TTL can be exchanged by refreshToken until its own
\* grace period ends.
C7_EveryDeviceCanRefresh ==
  \A t \in DOMAIN tokLog :
    (Cardinality(TokensOf(tokLog[t].user)) >= 2 /\ LapsedInGrace(t))
      => Refreshable(t)

\* C8: the only token of a username, lapsed at second e after any number
\* of renewals, can be exchanged by refreshToken at every second t with
\* e <= t < e + 365 days.
C8_GraceRunsFromActualExpiry ==
  \A t \in DOMAIN tokLog :
    (TokensOf(tokLog[t].user) = {t} /\ LapsedInGrace(t)) => Refreshable(t)

-----------------------------------------------------------------------------
(* Presence and messages as the claims speak of them                       *)

\* the ids of the rooms that have a record
ExistingRooms ==
  {r \in {IdPool[i] : i \in 1..nIds} : EXISTS(kv, roomKeyOf(r))}

\* the names a presence entry may have been set for
PresenceNames == ChatUsers \cup MemberOnlyNames \cup {ADMIN}

\* the presence entry of u for room r was set or refreshed less than 24
\* hours ago and not deleted since
PresentWithinTTL(r, u) ==
  /\ <<r, u>> \in DOMAIN presLog
  /\ now < presLog[<<r, u>>] + ROOM_PRESENCE_TTL_SECONDS

\* C9: activeUsers(room) never includes a user whose presence entry for the
\* room has passed 24 hours without being set or refreshed, and always
\* includes a user whose entry was set or refreshed less than 24 hours ago
\* and not deleted since.
C9_ActiveUsersArePresent ==
  \A i \in 1..nIds : \A u \in PresenceNames :
    u \in getActiveUsersInRoom(kv, IdPool[i]) <=> PresentWithinTTL(IdPool[i], u)

\* the stored log of room r in key space s, newest first
LogOf(s, r) ==
  IF EXISTS(s, messagesKeyOf(r)) THEN GET(s, messagesKeyOf(r)) ELSE <<>>

Sanitize(raw) == escapeHTML(filterProfanityPreservingUrls(raw))

\* contents that are not empty and not too long once sanitized
ValidContents ==
  {raw \in RawContents :
     raw # NoContent /\ ContentLen(Sanitize(raw)) <= MAX_MESSAGE_LENGTH}

\* the outcome of a sendMessage that arrives now
Send(r, u, raw) == handleSendMessage(Chat, r, u, raw, generateId)

Accepted(out, r, u, c) ==
  /\ out.status = 201
  /\ LogOf(out.c.kv, r)
       = <<[id |-> generateId, username |-> u, content |-> c]>> \o LogOf(kv, r)

NotStored(out, r) == LogOf(out.c.kv, r) = LogOf(kv, r)

RejectedAsDuplicate(out, r) ==
  out.status = 400 /\ out.error = DuplicateMessage /\ NotStored(out, r)

RateLimited(out, r) == out.status = 429 /\ NotStored(out, r)

\* r is a public room in which u has used up the burst limiter: 3 requests
\* in the running 10-second window, 20 in the running 60-second window, or
\* a request let through less than 2 seconds ago
Throttled(r, u) ==
  LET shortKey == <<CHAT_BURST_PREFIX, "s:", r, u>>
      longKey == <<CHAT_BURST_PREFIX, "l:", r, u>>
      lastKey == <<CHAT_BURST_PREFIX, "last:", r, u>>
  IN  /\ GET(kv, roomKeyOf(r)).type = "public"
      /\ \/ EXISTS(kv, shortKey) /\ GET(kv, shortKey) >= CHAT_BURST_SHORT_LIMIT
         \/ EXISTS(kv, longKey) /\ GET(kv, longKey) >= CHAT_BURST_LONG_LIMIT
         \/ /\ EXISTS(kv, lastKey)
            /\ now - GET(kv, lastKey) < CHAT_MIN_INTERVAL_SECONDS

\* room r2 is another room whose newest message is not (u, c)
OtherRoom(r, r2, u, c) ==
  /\ r2 # r
  /\ \/ LogOf(kv, r2) = <<>>
     \/ LogOf(kv, r2)[1].username # u
     \/ LogOf(kv, r2)[1].content # c

C11_LogHoldsAtMost100 ==
  \A r \in ExistingRooms : Len(LogOf(kv, r)) <= LTRIM_STOP + 1

\* the stored record of room r
RoomOf(r) == GET(kv, roomKeyOf(r))

\* the private rooms that have exactly 2 members, both of them usernames
\* a request may carry
TwoMemberRooms ==
  {r \in ExistingRooms :
     /\ RoomOf(r).type = "private"
     /\ Len(RoomOf(r).members) = 2
     /\ \A i \in 1..2 : assertValidUsername(RoomOf(r).members[i])}

\* C12: when one member of a private room with exactly 2 members leaves it
\* (deleteRoom requested by that member, or leaveRoom for that member), the
\* room record is deleted; it is never kept with a single member.
C12_TwoMemberRoomDeletedOnLeave ==
  \A r \in TwoMemberRooms : \A i \in 1..2 :
    LET u == RoomOf(r).members[i]
    IN  /\ ~EXISTS(handleDeleteRoom(Chat, r, u).c.kv, roomKeyOf(r))
        /\ ~EXISTS(handleLeaveRoom(Chat, r, u).c.kv, roomKeyOf(r))

\* the members of room r, without repetition
DistinctMembers(r) ==
  {RoomOf(r).members[i] : i \in DOMAIN RoomOf(r).members}

\* C13: after any sequence of createRoom, deleteRoom, leaveRoom, joinRoom
\* and switchRoom operations, every stored private room record has at least
\* 2 distinct members, and no stored public room record has a members list.
C13_PrivateRoomsHaveTwoMembers ==
  \A r \in ExistingRooms :
    IF RoomOf(r).type = "private"
    THEN Cardinality(DistinctMembers(r)) >= 2
    ELSE RoomOf(r).members = <<>>

\* the latest n arrivals, the newest last
Latest(n) == SubSeq(sendLog, Len(sendLog) - n + 1, Len(sendLog))

\* the latest n requests were sendMessage requests of u to r
LatestAre(n, r, u) ==
  /\ Len(sendLog) >= n
  /\ \A i \in 1..n : Latest(n)[i].roomId = r /\ Latest(n)[i].username = u

\* C14: of any 4 sendMessage requests of one user to one public room that
\* arrive within a span of 10 seconds, the 4th is answered 429: when the
\* latest 3 requests of u to the public room r arrived less than 10 seconds
\* ago, a further sendMessage of u to r is rejected by the rate limit.
C14_FourthInTenSecondsRejected ==
  \A r \in ExistingRooms, u \in ChatUsers :
    (/\ RoomOf(r).type = "public"
     /\ LatestAre(CHAT_BURST_SHORT_LIMIT, r, u)
     /\ Elapsed(Latest(CHAT_BURST_SHORT_LIMIT)[1])
          < CHAT_BURST_SHORT_WINDOW_SECONDS * 1000)
    => \A c \in BurstContents : Send(r, u, c).status = 429

\* the latest request was a sendMessage of u to the public room r, and it
\* was accepted
LastAccepted(r, u) ==
  /\ RoomOf(r).type = "public"
  /\ LatestAre(1, r, u)
  /\ Latest(1)[1].status = 201

\* C15: a message sent exactly 2.0 seconds after the previous accepted
\* message passes the minimum-interval check, and one sent less than 2
\* seconds after it is rejected, the send times taken in milliseconds.
C15_MinimumIntervalInMilliseconds ==
  \A r \in ExistingRooms, u \in ChatUsers :
    LastAccepted(r, u) =>
      \A c \in BurstContents :
        /\ Elapsed(Latest(1)[1]) = CHAT_MIN_INTERVAL_SECONDS * 1000
             => Send(r, u, c).error # BurstInterval
        /\ Elapsed(Latest(1)[1]) < CHAT_MIN_INTERVAL_SECONDS * 1000
             => Send(r, u, c).status = 429

\* C16: for each (action, identifier) pair the generic limiter allows at
\* most 10 requests within one 60-second window, also when requests of the
\* pair are processed concurrently; every further request of the window is
\* rejected.
C16_AtMostTenAllowedPerWindow ==
  \A key \in DOMAIN rateLog : rateLog[key].count <= RATE_LIMIT_ATTEMPTS

\* C17: when a store command fails during the generic limiter's check or
\* during the burst limiter's check, the request is treated as allowed and
\* goes on to its handler; the failure by itself gives neither a 429 nor an
\* error response.  A step in which a limiter's command threw has not
\* answered 429, and a request for a sensitive action is then at its
\* handler; whatever command of the burst limiter throws, handleSendMessage
\* answers what it answers from "Check if room exists" on.
C17_LimitersFailOpen ==
  /\ resp.failed =>
       /\ resp.status # 429
       /\ resp.action = "none"
            => \E p \in DOMAIN inflight : inflight[p].pc = "handler"
  /\ \A r \in ExistingRooms, u \in ChatUsers, c \in BurstContents,
        failAt \in BurstCommands :
       burstThrows(Chat, r, u, c, failAt) =>
         sendMessageChecksUnless(Chat, r, u, c, failAt)
           = sendMessageRest([kv |-> burstOf(Chat, r, u, failAt).s,
                              pres |-> presLog],
                             r, u, escapeHTML(filterProfanityPreservingUrls(c)))

\* a command of the burst limiter threw after the short counter was
\* raised, and the message was stored
C17_Witness ==
  /\ resp.failed
  /\ resp.status = 201
  /\ \E r \in ExistingRooms :
       /\ EXISTS(kv, <<CHAT_BURST_PREFIX, "s:", r, "alice">>)
       /\ Len(LogOf(kv, r)) > 0

\* the outcome of a handler that has reached its publish calls is the same
\* response and the same store when a publish call throws
KeepsOutcome(out) == out.status \in {200, 201} => published(out, TRUE) = out

PrivateMemberLists ==
  {<<"bob">>, <<"x:bob">>, <<"bob", "carol">>, <<"carol", "bob">>,
   <<"Alice">>, <<"bob", "bob">>}

\* the elements of a sequence
Range(seq) == {seq[i] : i \in DOMAIN seq}

\* C19: createRoom of type private by user c with the non-empty member list
\* M stores a room whose members are the lowercased names of M together
\* with c, whose name is those members sorted ascending, each prefixed with
\* "@", joined by ", ", whose userCount is the number of members, and every
\* member of which has a presence entry, so that the room has userCount
\* active users.
C19_PrivateRoomAsCreated ==
  \A M \in PrivateMemberLists, c \in ChatUsers :
    LET out == handleCreateRoom(Chat, NoName, "private", M, c, generateId)
        room == GET(out.c.kv, roomKeyOf(generateId))
    IN  /\ out.status = 201
        /\ Range(room.members) = {ToLower(m) : m \in Range(M)} \cup {ToLower(c)}
        /\ room.name = privateName(room.members)
        /\ room.userCount = Len(room.members)
        /\ \A m \in Range(room.members) :
             EXISTS(out.c.kv, presenceKeyOf(generateId, m))
        /\ Cardinality(PresenceKeysOf(out.c.kv, generateId)) = room.userCount

\* the users whose view of the rooms is followed: "x_bob" is a username
\* USERNAME_REGEX accepts
Viewers == ChatUsers \cup {ADMIN, "x_bob"}

\* every private room among rooms has u as a member
MemberOfAll(rooms, u) ==
  \A r \in rooms : r.room.type = "private" => includes(r.room.members, u)

\* an event on the public channel holds public rooms only, and one on the
\* personal channel of a user holds no private room the user is not in
MembersOnly(e) ==
  /\ e.channel = PublicChannel => \A r \in e.rooms : r.room.type = "public"
  /\ \A u \in Viewers : e.channel = channelOf(u) => MemberOfAll(e.rooms, u)

\* C20: a private room is returned by getRooms only when the username
\* supplied with the request is among its members, and is part of a
\* rooms-updated event published to a user's personal channel only when
\* that user is a member; callers without a username and the public channel
\* get public rooms only.  The events are those broadcastRoomsUpdated
\* publishes over the store as it is, and those a leaveRoom request
\* publishes.
C20_PrivateRoomsShownToMembersOnly ==
  /\ \A u \in Viewers : MemberOfAll(handleGetRooms(kv, u), u)
  /\ \A r \in handleGetRooms(kv, NoName) : r.room.type = "public"
  /\ \A e \in broadcastRoomsUpdated(kv) : MembersOnly(e)
  /\ \A roomId \in ExistingRooms, username \in ChatUsers :
       \A e \in leaveRoomEvents(Chat, roomId, username) : MembersOnly(e)

\* in key space s the presence entry of u for room r has its full TTL
FreshPresence(s, r, u) ==
  /\ EXISTS(s, presenceKeyOf(r, u))
  /\ s[presenceKeyOf(r, u)].exp = now + ROOM_PRESENCE_TTL_SECONDS
  /\ u \in getActiveUsersInRoom(s, r)

\* C21: after an accepted sendMessage by user u in room r, u has a presence
\* entry for r with a full 24-hour TTL and is among the active users of r,
\* whether or not u had a presence entry for r before the send.
C21_SendMarksSenderPresent ==
  \A r \in ExistingRooms, u \in ChatUsers, raw \in ValidContents :
    Send(r, u, raw).status = 201 => FreshPresence(Send(r, u, raw).c.kv, r, u)

\* the calls of ensureUserExists for username u
CallsFor(u) == {p \in DOMAIN inflight : inflight[p].username = u}

\* C22: when several ensureUserExists calls for the same absent username run
\* concurrently, exactly one setnx creates the record, no call ends with an
\* error, and every call returns the one stored user record: a call whose
\* setnx found the key taken reads the record of the call that created it.
C22_OneCreatesAllReturnIt ==
  \A u \in {"alice", "bob"} :
    /\ Cardinality({p \in CallsFor(u) : inflight[p].created})
         = IF EXISTS(kv, userKeyOf(u)) THEN 1 ELSE 0
    /\ \A p \in CallsFor(u) :
         inflight[p].pc = "returned" =>
           /\ ~inflight[p].error
           /\ EXISTS(kv, userKeyOf(u))
           /\ inflight[p].userData = GET(kv, userKeyOf(u))

\* two calls found no record, at different seconds; one created it, the
\* other read it after its setnx, and both have returned
C22_Witness ==
  \E p \in DOMAIN inflight, q \in DOMAIN inflight :
    /\ inflight[p].username = inflight[q].username
    /\ inflight[p].pc = "returned" /\ inflight[q].pc = "returned"
    /\ inflight[p].created
    /\ ~inflight[q].created /\ inflight[q].reads = 2
    /\ inflight[p].userData.lastActive > 0

\* in what the request left behind, room r has gone with its message log
\* and all its presence entries, or room r is still there
GoneWhole(out, r) ==
  ~EXISTS(out.c.kv, roomKeyOf(r)) =>
    /\ ~EXISTS(out.c.kv, messagesKeyOf(r))
    /\ PresenceKeysOf(out.c.kv, r) = {}

\* C23: whenever a room record is removed, by deleteRoom of a public room by
\* the admin or by deleteRoom or leaveRoom of a member of a private room that
\* would leave at most 1 member, the room's message log and every presence
\* entry of that room are removed as well.
C23_RemovedRoomLeavesNothing ==
  \A r \in ExistingRooms, u \in ChatUsers \cup {ADMIN} :
    /\ GoneWhole(handleDeleteRoom(Chat, r, u), r)
    /\ GoneWhole(handleLeaveRoom(Chat, r, u), r)

\* C24: joinRoom for an existing room by a username of valid format that has
\* no user record creates the user record and marks the user present in the
\* room; it does not fail because the user does not exist yet.
C24_JoinCreatesMissingUser ==
  \A r \in ExistingRooms, u \in ChatUsers :
    (assertValidUsername(u) /\ ~EXISTS(kv, userKeyOf(u))) =>
      LET out == handleJoinRoom(Chat, r, u)
      IN  /\ out.status = 200
          /\ EXISTS(out.c.kv, userKeyOf(u))
          /\ EXISTS(out.c.kv, presenceKeyOf(r, u))

\* the request is answered 403 and nothing is written
Forbidden(out) == out.status = 403 /\ out.c = Chat

\* C25: createRoom of a public room, deleteRoom of a public room and
\* deleteMessage, requested by an authenticated user other than the admin,
\* are answered 403 and leave every room record, message log and presence
\* entry as it was.  The createRoom request carries a room name, the
\* deleteRoom request names a stored public room and the deleteMessage
\* request a room id and a message id.
C25_OnlyAdminManagesPublicRooms ==
  \A u \in ChatUsers :
    /\ \A name \in {"general", "lobby"}, members \in {<<>>, <<"bob">>} :
         Forbidden(handleCreateRoom(Chat, name, "public", members, u,
                                    generateId))
    /\ \A r \in ExistingRooms :
         RoomOf(r).type = "public" => Forbidden(handleDeleteRoom(Chat, r, u))
    /\ \A r \in RequestRoomIds \ {NoId}, i \in 1..(nIds + 1) :
         Forbidden(handleDeleteMessage(Chat, r, IdPool[i], u))

\* a request was answered 403 while a public room with a message and a
\* present user is stored
C25_Witness ==
  /\ resp.status = 403
  /\ \E r \in ExistingRooms :
       /\ RoomOf(r).type = "public"
       /\ LogOf(kv, r) # <<>>
       /\ PresenceKeysOf(kv, r) # {}

\* the positions of log at which the message has id m
At(log, m) == {j \in 1..Len(log) : log[j].id = m}

\* log without its entry at position j
Without(log, j) == SubSeq(log, 1, j - 1) \o SubSeq(log, j + 1, Len(log))

\* C26: deleteMessage by the admin for a message id present in the room's
\* log removes exactly the one entry with that id and leaves every other
\* entry of that log, their order, and all other rooms' logs unchanged; for
\* an id that is not in the log it answers 404 and changes nothing.
C26_DeleteMessageRemovesOne ==
  \A r \in ExistingRooms, i \in 1..(nIds + 1) :
    LET m == IdPool[i]
        out == handleDeleteMessage(Chat, r, m, ADMIN)
    IN  IF At(LogOf(kv, r), m) = {}
        THEN out.status = 404 /\ out.c = Chat
        ELSE /\ out.status = 200
             /\ \E j \in At(LogOf(kv, r), m) :
                  LogOf(out.c.kv, r) = Without(LogOf(kv, r), j)
             /\ \A r2 \in ExistingRooms \ {r} :
                  LogOf(out.c.kv, r2) = LogOf(kv, r2)

\* the stored rooms and messages
StoredMessages(R, n) ==
  Cardinality({<<r, j>> \in R \X (1..n) : j <= Len(LogOf(kv, r))})

\* deleteMessage has just removed a message (rooms are not deleted here, so
\* an id that is neither a room nor in a log was a message) from below the
\* head of a log
C26_Witness ==
  /\ resp.status = 200
  /\ Cardinality(ExistingRooms) + StoredMessages(ExistingRooms, nIds) < nIds
  /\ \E r \in ExistingRooms :
       /\ LogOf(kv, r) # <<>>
       /\ LogOf(kv, r)[1].id = IdPool[nIds]
       /\ \E r2 \in ExistingRooms \ {r} : LogOf(kv, r2) # <<>>

\* generateId hands out IdPool[1], IdPool[2], ...: the place of an id in
\* IdPool tells when it was drawn, and a message is stored with the id drawn
\* at its lpush or, in a request run to completion, just before it
DrawnAt ==
  [id \in {IdPool[i] : i \in DOMAIN IdPool} |->
     CHOOSE i \in DOMAIN IdPool : IdPool[i] = id]

\* message a was stored after message b
Newer(a, b) == DrawnAt[a.id] > DrawnAt[b.id]

AheadOfExpiry(u, t) ==
  /\ EXISTS(kv, lastTokenKeyOf(u))
  /\ JSON_parse(GET(kv, lastTokenKeyOf(u))).token = t
  /\ now < JSON_parse(GET(kv, lastTokenKeyOf(u))).expiredAt

\* C28: the last-token record written at issuance takes effect only at the
\* token's expiry time: validation with allowExpired answers expired only at
\* or after the expiredAt stored in the record, so a token removed by
\* logoutCurrent before its expiry cannot be exchanged for a new token
\* through refreshToken.
C28_GraceStartsAtExpiry ==
  \A t \in DOMAIN tokLog :
    LET u == tokLog[t].user
    IN  AheadOfExpiry(u, t) =>
          /\ ~GraceValid(kv, u, t)
          /\ tokLog[t].ended = "logout" =>
                handleRefreshToken(kv, u, t, TokenPool[nTokens + 1]).status
                  # 201

\* the presence entry of u for room r in key space s, with its TTL
PresenceEntry(s, r, u) ==
  IF EXISTS(s, presenceKeyOf(r, u)) THEN <<s[presenceKeyOf(r, u)]>> ELSE <<>>

\* C29: switchRoom of user u from previous room p to next room n deletes
\* u's presence entry in p when p is a public room and leaves it unchanged
\* when p is private, and sets u's presence entry in n; a switchRoom whose
\* previous and next room ids are equal changes no store state.
C29_SwitchMovesPresence ==
  \A u \in ChatUsers :
    /\ \A p \in ExistingRooms, n \in ExistingRooms :
         LET out == handleSwitchRoom(Chat, p, n, u)
         IN  p # n =>
             /\ out.status = 200
             /\ IF RoomOf(p).type = "public"
                THEN PresenceEntry(out.c.kv, p, u) = <<>>
                ELSE PresenceEntry(out.c.kv, p, u) = PresenceEntry(kv, p, u)
             /\ FreshPresence(out.c.kv, n, u)
    /\ \A p \in RequestRoomIds : handleSwitchRoom(Chat, p, p, u).c = Chat

\* a user whom only switchRoom can have marked present in a public room is
\* present there since this second, and in a private room since an earlier
\* one, while another public room does not hold the user
C29_Witness ==
  /\ resp.status = 200
  /\ \E u \in ChatUsers, n \in ExistingRooms, q \in ExistingRooms :
       /\ RoomOf(n).type = "public"
       /\ FreshPresence(kv, n, u)
       /\ RoomOf(q).type = "private"
       /\ EXISTS(kv, presenceKeyOf(q, u))
       /\ presLog[<<q, u>>] < now
       /\ \E p \in ExistingRooms \ {n} :
            RoomOf(p).type = "public" /\ ~EXISTS(kv, presenceKeyOf(p, u))

\* C30: every message stored in any room's log, whichever operation appended
\* it (sendMessage or generateRyoReply), has content of at most 1000
\* characters.
C30_StoredContentAtMost1000 ==
  \A r \in ExistingRooms :
    \A j \in 1..Len(LogOf(kv, r)) :
      ContentLen(LogOf(kv, r)[j].content) <= MAX_MESSAGE_LENGTH

\* the three keys of the burst limiter for user u in room r
shortKeyOf(r, u) == <<CHAT_BURST_PREFIX, "s:", r, u>>

longKeyOf(r, u) == <<CHAT_BURST_PREFIX, "l:", r, u>>

lastKeyOf(r, u) == <<CHAT_BURST_PREFIX, "last:", r, u>>

\* the key k holds in s what it holds now: value and expiry, or nothing
Untouched(s, k) ==
  /\ EXISTS(s, k) <=> EXISTS(kv, k)
  /\ EXISTS(kv, k) => s[k] = kv[k]

\* what a counter holds now, 0 when the key is missing
CountNow(k) == IF EXISTS(kv, k) THEN GET(kv, k) ELSE 0

\* a send of u to r that arrives now is within the short window's limit,
\* within the long window's limit and not too soon after the last one
PassesAllThree(r, u) ==
  /\ CountNow(shortKeyOf(r, u)) + 1 <= CHAT_BURST_SHORT_LIMIT
  /\ CountNow(longKeyOf(r, u)) + 1 <= CHAT_BURST_LONG_LIMIT
  /\ EXISTS(kv, lastKeyOf(r, u))
       => now - GET(kv, lastKeyOf(r, u)) >= CHAT_MIN_INTERVAL_SECONDS

\* C31: for a public-room send the burst limiter checks the short window,
\* then the long window, then the minimum interval, and stops at the first
\* violation: a send rejected by the short-window check leaves the
\* long-window counter and the last-sent timestamp as they were, a send
\* rejected by the minimum-interval check leaves the last-sent timestamp as
\* it was, and the last-sent timestamp is written only when all three
\* checks pass; a private-room send leaves all three keys as they were.
C31_BurstLimiterStopsAtFirstViolation ==
  \A r \in ExistingRooms, u \in ChatUsers, raw \in RawContents :
    LET out == Send(r, u, raw)
    IN  IF RoomOf(r).type = "public"
        THEN /\ out.error = BurstShort
                  => /\ Untouched(out.c.kv, longKeyOf(r, u))
                     /\ Untouched(out.c.kv, lastKeyOf(r, u))
             /\ out.error = BurstInterval
                  => Untouched(out.c.kv, lastKeyOf(r, u))
             /\ ~Untouched(out.c.kv, lastKeyOf(r, u)) => PassesAllThree(r, u)
        ELSE /\ Untouched(out.c.kv, shortKeyOf(r, u))
             /\ Untouched(out.c.kv, longKeyOf(r, u))
             /\ Untouched(out.c.kv, lastKeyOf(r, u))

\* alice has run into the short window's limit in a public room, where her
\* long-window counter and last-sent timestamp are stored, and a private
\* room holds a message
C31_Witness ==
  /\ \E r \in ExistingRooms :
       /\ RoomOf(r).type = "public"
       /\ Send(r, "alice", <<"hi">>).error = BurstShort
       /\ EXISTS(kv, longKeyOf(r, "alice"))
       /\ EXISTS(kv, lastKeyOf(r, "alice"))
  /\ \E r \in ExistingRooms :
       RoomOf(r).type = "private" /\ LogOf(kv, r) # <<>>

\* the answers that refuse a request for lack of authorization
AuthorizationErrors == {401, 403}

\* u is none of the members of the stored room r
NotMemberOf(r, u) ==
  \A i \in 1..Len(RoomOf(r).members) : RoomOf(r).members[i] # u

\* out refuses the request and leaves the log of r and the presence entry
\* of u for r as they were
RefusedOutright(out, r, u) ==
  /\ out.status \in AuthorizationErrors
  /\ NotStored(out, r)
  /\ Untouched(out.c.kv, presenceKeyOf(r, u))

\* C32: sendMessage and joinRoom that target a private room on behalf of a
\* user who is not in that room's members are rejected with an
\* authorization error and add no message to the room's log and no presence
\* entry for the room.  (joinRoom is asked of users that have a record: it
\* answers 404 for the others.)
C32_PrivateRoomRefusesNonMembers ==
  \A r \in ExistingRooms, u \in ChatUsers :
    (RoomOf(r).type = "private" /\ NotMemberOf(r, u))
      => /\ \A raw \in ValidContents : RefusedOutright(Send(r, u, raw), r, u)
         /\ EXISTS(kv, userKeyOf(u))
              => RefusedOutright(handleJoinRoom(Chat, r, u), r, u)

-----------------------------------------------------------------------------
(* Room records read and written by requests that interleave.  getRoom,    *)
(* joinRoom and deleteRoom run from one await to the next; each call keeps *)
(* what it read in its locals.  A call that has answered stays in inflight *)
(* with pc "returned" and its status; during holds the calls that had not  *)
(* answered when it arrived.  getActiveUsersAndPrune's smembers and del of *)
(* the legacy set, which no handler writes, are left out.                  *)

RaceCalls == 1..MaxRaceCalls

\* the calls that have not answered yet
Running == {q \in DOMAIN inflight : inflight[q].pc # "returned"}

\* what a call holds before it has read a room record
NoRoom == [type |-> "none"]

\* the ids generateId has handed out
DrawnIds == {IdPool[i] : i \in 1..nIds}

Arrive(op, roomId, username) ==
  [op |-> op, pc |-> "arrived", roomId |-> roomId, username |-> username,
   roomData |-> NoRoom, fresh |-> NoRoom, userCount |-> 0,
   presenceKeys |-> {}, during |-> Running, status |-> 0]

Answer(l, status) == [l EXCEPT !.pc = "returned", !.status = status]

\* one await of the call p: its locals and the store after it
RaceStep(p, locals, c) ==
  /\ inflight' = Enter(p, locals)
  /\ kv' = c.kv
  /\ presLog' = c.pres
  /\ resp' = IF locals.pc = "returned"
             THEN Response("chat", locals.status, NoName, NoToken, 0)
             ELSE NoResponse
  /\ UNCHANGED <<now, ms, nTokens, nIds, tokLog, sendLog, rateLog>>

\* handleGetRoom: redis.get of the room record
GetRoomStart ==
  \E p \in RaceCalls, roomId \in DrawnIds :
    LET l == Arrive("getRoom", roomId, NoName)
        roomKey == roomKeyOf(roomId)
    IN  /\ Idle(p)
        /\ RaceStep(p, IF ~EXISTS(kv, roomKey) THEN Answer(l, 404)
                       ELSE [l EXCEPT !.pc = "scan",
                                      !.roomData = GET(kv, roomKey)],
                    Chat)

\* handleJoinRoom: the two redis.get of Promise.all, room and user
JoinStart(U) ==
  \E p \in RaceCalls, roomId \in DrawnIds, username \in U :
    LET l == Arrive("joinRoom", roomId, username)
        roomKey == roomKeyOf(roomId)
    IN  /\ Idle(p)
        /\ RaceStep(p, IF ~EXISTS(kv, roomKey) THEN Answer(l, 404)
                       ELSE IF ~EXISTS(kv, userKeyOf(username))
                       THEN Answer(l, 404)
                       ELSE [l EXCEPT !.pc = "setRoomPresence",
                                      !.roomData = GET(kv, roomKey)],
                    Chat)

\* handleJoinRoom: setRoomPresence(roomId, username)
JoinSetPresence ==
  \E p \in DOMAIN inflight :
    /\ inflight[p].pc = "setRoomPresence"
    /\ RaceStep(p, [inflight[p] EXCEPT !.pc = "scan"],
                setRoomPresence(Chat, inflight[p].roomId,
                                inflight[p].username))

\* refreshRoomUserCount: the scan of getActiveUsersInRoom
RefreshScan ==
  \E p \in DOMAIN inflight :
    /\ inflight[p].pc = "scan"
    /\ RaceStep(p, [inflight[p] EXCEPT
                      !.pc = "get",
                      !.userCount =
                        Cardinality(PresenceKeysOf(kv, inflight[p].roomId))],
                Chat)

\* where a call goes on when refreshRoomUserCount has returned
afterRefresh(l) ==
  IF l.op = "getRoom" THEN Answer(l, 200) ELSE [l EXCEPT !.pc = "setRoom"]

\* refreshRoomUserCount: redis.get(roomKey)
RefreshGet ==
  \E p \in DOMAIN inflight :
    LET roomKey == roomKeyOf(inflight[p].roomId)
    IN  /\ inflight[p].pc = "get"
        /\ RaceStep(p, IF EXISTS(kv, roomKey)
                       THEN [inflight[p] EXCEPT !.pc = "set",
                                                !.fresh = GET(kv, roomKey)]
                       ELSE afterRefresh(inflight[p]),
                    Chat)

\* refreshRoomUserCount: redis.set(roomKey, { ...roomData, userCount })
refreshWrite(s, roomKey, roomData, userCount) ==
  SET(s, roomKey, [roomData EXCEPT !.userCount = userCount])

RefreshSet ==
  \E p \in DOMAIN inflight :
    /\ inflight[p].pc = "set"
    /\ RaceStep(p, afterRefresh(inflight[p]),
                [kv |-> refreshWrite(kv, roomKeyOf(inflight[p].roomId),
                                     inflight[p].fresh,
                                     inflight[p].userCount),
                 pres |-> presLog])

\* handleJoinRoom: redis.set of { ...roomData, userCount }, roomData being
\* what the call read when it arrived
JoinSetRoom ==
  \E p \in DOMAIN inflight :
    /\ inflight[p].pc = "setRoom"
    /\ RaceStep(p, [inflight[p] EXCEPT !.pc = "setUser"],
                [kv |-> refreshWrite(kv, roomKeyOf(inflight[p].roomId),
                                     inflight[p].roomData,
                                     inflight[p].userCount),
                 pres |-> presLog])

\* handleJoinRoom: redis.set of the user record, and the answer
JoinSetUser ==
  \E p \in DOMAIN inflight :
    /\ inflight[p].pc = "setUser"
    /\ RaceStep(p, Answer(inflight[p], 200),
                [kv |-> SET(kv, userKeyOf(inflight[p].username),
                            UserRecord(inflight[p].username)),
                 pres |-> presLog])

\* roomData.members.filter((member) => member !== username.toLowerCase())
updatedMembersOf(roomData, username) ==
  LET keep(m) == m # ToLower(username)
  IN  SelectSeq(roomData.members, keep)

\* handleDeleteRoom: redis.get of the room record and the permission check
DeleteStart(U) ==
  \E p \in RaceCalls, roomId \in DrawnIds, username \in U :
    LET l == Arrive("deleteRoom", roomId, username)
        roomKey == roomKeyOf(roomId)
        roomData == GET(kv, roomKey)
    IN  /\ Idle(p)
        /\ RaceStep(p,
             IF ~EXISTS(kv, roomKey) THEN Answer(l, 404)
             ELSE IF roomData.type = "private"
                     /\ ~includes(roomData.members, ToLower(username))
             THEN Answer(l, 403)
             ELSE IF roomData.type # "private" /\ ~isAdmin(username)
             THEN Answer(l, 403)
             ELSE IF roomData.type = "private"
                     /\ Len(updatedMembersOf(roomData, username)) > 1
             THEN [l EXCEPT !.pc = "setMembers", !.roomData = roomData]
             ELSE [l EXCEPT !.pc = "scanPresence", !.roomData = roomData],
             Chat)

\* handleDeleteRoom, 3 or more members: redis.set of the room without the
\* member
DeleteSetMembers ==
  \E p \in DOMAIN inflight :
    LET l == inflight[p]
        updatedMembers == updatedMembersOf(l.roomData, l.username)
    IN  /\ l.pc = "setMembers"
        /\ RaceStep(p, [l EXCEPT !.pc = "delPresence"],
                    [kv |-> SET(kv, roomKeyOf(l.roomId),
                                [l.roomData EXCEPT
                                   !.members = updatedMembers,
                                   !.userCount = Len(updatedMembers)]),
                     pres |-> presLog])

\* handleDeleteRoom, 3 or more members: redis.del(presenceKey), and the
\* answer
DeleteDelPresence ==
  \E p \in DOMAIN inflight :
    LET l == inflight[p]
    IN  /\ l.pc = "delPresence"
        /\ RaceStep(p, Answer(l, 200),
                    delPresence(Chat, {presenceKeyOf(l.roomId,
                                                     ToLower(l.username))}))

\* handleDeleteRoom, the room goes: the scan of its presence keys
DeleteScanPresence ==
  \E p \in DOMAIN inflight :
    /\ inflight[p].pc = "scanPresence"
    /\ RaceStep(p, [inflight[p] EXCEPT
                      !.pc = "exec",
                      !.presenceKeys = PresenceKeysOf(kv, inflight[p].roomId)],
                Chat)

\* handleDeleteRoom, the room goes: pipeline.exec() of the del commands,
\* and the answer
DeleteExec ==
  \E p \in DOMAIN inflight :
    LET l == inflight[p]
    IN  /\ l.pc = "exec"
        /\ RaceStep(p, Answer(l, 200),
                    delPresence([kv |-> DEL(kv, {roomKeyOf(l.roomId),
                                                 messagesKeyOf(l.roomId)}),
                                 pres |-> presLog],
                                l.presenceKeys))

\* private rooms of 2 and of 3 members
RaceRooms ==
  {[name |-> NoName, type |-> "private", members |-> m, username |-> "alice"] :
     m \in {<<"bob">>, <<"bob", "carol">>}}

RaceNext ==
  \/ CreateRoom(RaceRooms, MaxRaceRooms)
  \/ SwitchRoom({"alice"}, MaxRaceRooms)
  \/ GetRoomStart
  \/ JoinStart({"alice"})
  \/ JoinSetPresence
  \/ RefreshScan
  \/ RefreshGet
  \/ RefreshSet
  \/ JoinSetRoom
  \/ JoinSetUser
  \/ DeleteStart({"bob", "carol"})
  \/ DeleteSetMembers
  \/ DeleteDelPresence
  \/ DeleteScanPresence
  \/ DeleteExec

SpecRace == Init /\ [][RaceNext]_vars

\* the calls p and q ran at the same time: one arrived before the other
\* had answered
Concurrent(p, q) ==
  p # q /\ (p \in inflight[q].during \/ q \in inflight[p].during)

\* the call p has answered 200
Succeeded(p) == inflight[p].pc = "returned" /\ inflight[p].status = 200

\* the call q of deleteRoom took a member out of a private room that went on
LeftRoom(q) ==
  /\ inflight[q].op = "deleteRoom"
  /\ Succeeded(q)
  /\ Len(updatedMembersOf(inflight[q].roomData, inflight[q].username)) > 1

\* C33: recomputing a room's occupancy avoids lost updates: when the count
\* refresh (inside getRoom or joinRoom) runs concurrently with an update of
\* the same room's members by a private-room leave, then after both have
\* completed the stored members list is the one the leave wrote; the count
\* refresh never writes back an older members list.
C33_RefreshKeepsMembersOfLeave ==
  \A p, q \in DOMAIN inflight :
    (/\ inflight[p].op \in {"getRoom", "joinRoom"}
     /\ Succeeded(p)
     /\ LeftRoom(q)
     /\ inflight[p].roomId = inflight[q].roomId
     /\ Concurrent(p, q))
    => /\ EXISTS(kv, roomKeyOf(inflight[q].roomId))
       /\ GET(kv, roomKeyOf(inflight[q].roomId)).members
            = updatedMembersOf(inflight[q].roomData, inflight[q].username)

\* C34: once deleteRoom has removed a room record, no request that read the
\* room before the deletion (getRoom, joinRoom or any other caller of the
\* count refresh) writes the room record back: the room id stays absent
\* from the store in every later state, and no presence entry is added for
\* it.
C34_DeletedRoomStaysDeleted ==
  [][\A r \in DrawnIds :
       ~EXISTS(kv, roomKeyOf(r))
         => /\ ~EXISTS(kv', roomKeyOf(r))
            /\ PresenceKeysOf(kv', r) \subseteq PresenceKeysOf(kv, r)]_vars

\* the calls p and q of deleteRoom, by two members of one private room, ran
\* at the same time and both answered 200
BothLeft(p, q) ==
  /\ inflight[p].op = "deleteRoom" /\ inflight[q].op = "deleteRoom"
  /\ Succeeded(p) /\ Succeeded(q)
  /\ inflight[p].roomId = inflight[q].roomId
  /\ inflight[p].username # inflight[q].username
  /\ inflight[p].roomData.type = "private"
  /\ Concurrent(p, q)

\* C35: when two members of the same private room leave it concurrently
\* through deleteRoom and both requests return success, neither of them is
\* in the stored members list afterwards; in particular, when the room had
\* 3 members the room is deleted, because only 1 member remains.
C35_ConcurrentLeavesBothTakeEffect ==
  \A p, q \in DOMAIN inflight :
    BothLeft(p, q)
      => LET roomKey == roomKeyOf(inflight[p].roomId)
         IN  /\ EXISTS(kv, roomKey)
                  => /\ ~includes(GET(kv, roomKey).members,
                                  inflight[p].username)
                     /\ ~includes(GET(kv, roomKey).members,
                                  inflight[q].username)
             /\ Len(inflight[p].roomData.members) = 3 => ~EXISTS(kv, roomKey)

-----------------------------------------------------------------------------
(* Validation and revocation that interleave.  validateAuth and            *)
(* deleteAllUserTokens run from one await to the next.  The validation is  *)
(* that of a request whose only access to the store it is; the router's    *)
(* validation of the logoutAllDevices request is taken whole when the      *)
(* request arrives.                                                        *)

RevokeCalls == 1..MaxRevokeCalls

ArriveWith(op, username, token) ==
  [op |-> op, pc |-> "arrived", username |-> ToLower(username),
   token |-> token, keys |-> {}, issued |-> IssuedTokens,
   during |-> Running, status |-> 0]

\* one await of the call p: its locals and the key space after it
RevokeStep(p, locals, s) == RaceStep(p, locals, [kv |-> s, pres |-> presLog])

\* validateAuth, path 1: redis.exists(userTokenKey)
ValidateStart(N) ==
  \E p \in RevokeCalls, username \in HeaderNames(N), token \in IssuedTokens :
    LET l == ArriveWith("validate", username, token)
    IN  /\ Idle(p)
        /\ RevokeStep(p, IF EXISTS(kv, getUserTokenKey(l.username, token))
                         THEN [l EXCEPT !.pc = "expireUser"]
                         ELSE [l EXCEPT !.pc = "getMapping"],
                      kv)

\* validateAuth, path 1: redis.expire(userTokenKey)
ValidateExpireUser ==
  \E p \in DOMAIN inflight :
    LET l == inflight[p]
    IN  /\ l.pc = "expireUser"
        /\ RevokeStep(p, [l EXCEPT !.pc = "expireMapping"],
                      EXPIRE(kv, getUserTokenKey(l.username, l.token),
                             USER_TTL_SECONDS))

\* validateAuth, path 1: redis.expire(getTokenKey(token)), and the answer
ValidateExpireMapping ==
  \E p \in DOMAIN inflight :
    LET l == inflight[p]
    IN  /\ l.pc = "expireMapping"
        /\ RevokeStep(p, Answer(l, 200),
                      EXPIRE(kv, getTokenKey(l.token), USER_TTL_SECONDS))

\* validateAuth, path 2: getUsernameForToken(token)
ValidateGetMapping ==
  \E p \in DOMAIN inflight :
    LET l == inflight[p]
        tokenKey == getTokenKey(l.token)
    IN  /\ l.pc = "getMapping"
        /\ RevokeStep(p, IF /\ EXISTS(kv, tokenKey)
                            /\ ToLower(GET(kv, tokenKey)) = l.username
                         THEN [l EXCEPT !.pc = "refreshMapping"]
                         ELSE [l EXCEPT !.pc = "getLegacy"],
                      kv)

\* validateAuth, path 2: redis.expire(getTokenKey(token))
ValidateRefreshMapping ==
  \E p \in DOMAIN inflight :
    LET l == inflight[p]
    IN  /\ l.pc = "refreshMapping"
        /\ RevokeStep(p, [l EXCEPT !.pc = "migrate"],
                      EXPIRE(kv, getTokenKey(l.token), USER_TTL_SECONDS))

\* validateAuth, path 3: redis.get(legacyKey)
ValidateGetLegacy ==
  \E p \in DOMAIN inflight :
    LET l == inflight[p]
        legacyKey == getTokenKey(l.username)
    IN  /\ l.pc = "getLegacy"
        /\ RevokeStep(p, IF EXISTS(kv, legacyKey) /\ GET(kv, legacyKey) = l.token
                         THEN [l EXCEPT !.pc = "refreshLegacy"]
                         ELSE Answer(l, 401),
                      kv)

\* validateAuth, path 3: redis.expire(legacyKey)
ValidateRefreshLegacy ==
  \E p \in DOMAIN inflight :
    LET l == inflight[p]
    IN  /\ l.pc = "refreshLegacy"
        /\ RevokeStep(p, [l EXCEPT !.pc = "migrate"],
                      EXPIRE(kv, getTokenKey(l.username), USER_TTL_SECONDS))

\* validateAuth, paths 2 and 3: redis.set(userTokenKey, timestamp, { ex })
migrate(s, username, token) ==
  SETEX(s, getUserTokenKey(username, token), CreatedAt, USER_TTL_SECONDS)

\* validateAuth, paths 2 and 3: the migration to the user-scoped key, and
\* the answer
ValidateMigrate ==
  \E p \in DOMAIN inflight :
    LET l == inflight[p]
    IN  /\ l.pc = "migrate"
        /\ RevokeStep(p, Answer(l, 200), migrate(kv, l.username, l.token))

\* POST logoutAllDevices arrives: the router validates the token
LogoutAllStart(N) ==
  \E p \in RevokeCalls, headerUsername \in HeaderNames(N),
     token \in IssuedTokens :
    LET l == ArriveWith("logoutAllDevices", headerUsername, token)
        auth == Gate(kv, headerUsername, NoName, token)
    IN  /\ Idle(p)
        /\ RevokeStep(p, IF auth.valid THEN [l EXCEPT !.pc = "scan"]
                                       ELSE Answer(l, 401),
                      auth.s)

\* deleteAllUserTokens, part 1: the scan of the user-scoped keys
LogoutAllScan ==
  \E p \in DOMAIN inflight :
    LET l == inflight[p]
        userTokenKeys == getUserTokenPattern(kv, l.username)
    IN  /\ l.pc = "scan"
        /\ RevokeStep(p, IF userTokenKeys # {}
                         THEN [l EXCEPT !.pc = "exec", !.keys = userTokenKeys]
                         ELSE [l EXCEPT !.pc = "scanOld"],
                      kv)

\* deleteAllUserTokens, part 1: pipeline.exec() of the del commands
LogoutAllExec ==
  \E p \in DOMAIN inflight :
    LET l == inflight[p]
    IN  /\ l.pc = "exec"
        /\ RevokeStep(p, [l EXCEPT !.pc = "scanOld", !.keys = {}],
                      DEL(kv, l.keys \cup {getTokenKey(k[3]) : k \in l.keys}))

\* deleteAllUserTokens, part 2: the scan of chat:token:* and the redis.get
\* of each key it keeps
LogoutAllScanOld ==
  \E p \in DOMAIN inflight :
    LET l == inflight[p]
        oldTokenKeysToDelete == OldTokenKeysOf(kv, l.username)
    IN  /\ l.pc = "scanOld"
        /\ RevokeStep(p, IF oldTokenKeysToDelete # {}
                         THEN [l EXCEPT !.pc = "delOld",
                                        !.keys = oldTokenKeysToDelete]
                         ELSE [l EXCEPT !.pc = "delLegacy"],
                      kv)

\* deleteAllUserTokens, part 2: redis.del(...oldTokenKeysToDelete)
LogoutAllDelOld ==
  \E p \in DOMAIN inflight :
    LET l == inflight[p]
    IN  /\ l.pc = "delOld"
        /\ RevokeStep(p, [l EXCEPT !.pc = "delLegacy", !.keys = {}],
                      DEL(kv, l.keys))

\* deleteAllUserTokens, part 3: redis.del(legacyKey)
LogoutAllDelLegacy ==
  \E p \in DOMAIN inflight :
    LET l == inflight[p]
    IN  /\ l.pc = "delLegacy"
        /\ RevokeStep(p, [l EXCEPT !.pc = "delLast"],
                      DEL(kv, {getTokenKey(l.username)}))

\* deleteAllUserTokens, part 4: redis.del(lastTokenKey), and the answer
LogoutAllDelLast ==
  \E p \in DOMAIN inflight :
    LET l == inflight[p]
    IN  /\ l.pc = "delLast"
        /\ RevokeStep(p, Answer(l, 200),
                      DEL(kv, {lastTokenKeyOf(l.username)}))

RevokeNames == {"Alice"}

\* half a second after the start, and the second the keys written at the
\* start expire at
RevokeInstants == {<<0, 500>>, <<USER_TTL_SECONDS, 0>>}

RevokeTick == \E i \in RevokeInstants : PassTo(i[1], i[2])

RevokeNext ==
  \/ CreateUser(RevokeNames, MaxRevokeTokens)
  \/ RevokeTick
  \/ ValidateStart(RevokeNames)
  \/ ValidateExpireUser
  \/ ValidateExpireMapping
  \/ ValidateGetMapping
  \/ ValidateRefreshMapping
  \/ ValidateGetLegacy
  \/ ValidateRefreshLegacy
  \/ ValidateMigrate
  \/ LogoutAllStart(RevokeNames)
  \/ LogoutAllScan
  \/ LogoutAllExec
  \/ LogoutAllScanOld
  \/ LogoutAllDelOld
  \/ LogoutAllDelLegacy
  \/ LogoutAllDelLast

SpecRevoke == Init /\ [][RevokeNext]_vars

\* C36: an in-flight validation never brings back a token that a revocation
\* removed: when validate requests for token t of user u interleave with
\* logoutAllDevices for u, then once the revoking request and all in-flight
\* validations have completed, t has no active entry and fails strict
\* validation.  t is any token handed out before the revoking request
\* arrived.
C36_RevokedTokenStaysRevoked ==
  \A q \in DOMAIN inflight :
    (inflight[q].op = "logoutAllDevices" /\ Succeeded(q) /\ Running = {})
      => \A t \in inflight[q].issued :
           tokLog[t].user = inflight[q].username
             => ~StrictValid(kv, inflight[q].username, t)

\* the counter keys of the two limiters: rl:{action}:{identifier}, and the
\* short and long counters rl:chat:b:s:... and rl:chat:b:l:...
CounterKeys ==
  {k \in DOMAIN kv :
     \/ k[1] = RATE_LIMIT_PREFIX
     \/ (k[1] = CHAT_BURST_PREFIX /\ k[2] \in {"s:", "l:"})}

\* C37: every rate-limit counter key (the generic limiter's counter and the
\* chat burst limiter's short and long counters) carries a TTL in every
\* reachable state, under any interleaving of requests with key expiry.
C37_CountersCarryTTL ==
  \A k \in CounterKeys : kv[k].exp # NoExpiry

-----------------------------------------------------------------------------
(* A double submit: one member of a private room, whose sends the burst    *)
(* limiter does not count, sends while another of its sends is between     *)
(* its duplicate check and its lpush.                                      *)

DoubleNext ==
  \/ CreateRoom(LogRooms, 1)
  \/ StartSendMessage({"bob"}, BurstContents)
  \/ Push(MaxDoubleIds)
  \/ Trim
  \/ Update

SpecDouble == Init /\ [][DoubleNext]_vars

\* C38: duplicate suppression prevents a double submit also under
\* concurrency: when two sendMessage requests with the same username and the
\* same content for the same room run concurrently, at most one of them is
\* stored in the room's log and the other is rejected as a duplicate.  No
\* message of the log follows one of the same username and content.
C38_NoDoubleSubmitStored ==
  \A r \in ExistingRooms :
    \A i \in 1..(Len(LogOf(kv, r)) - 1) :
      ~(/\ LogOf(kv, r)[i].username = LogOf(kv, r)[i + 1].username
        /\ LogOf(kv, r)[i].content = LogOf(kv, r)[i + 1].content)

\* C39: a switchRoom request that fails because the next room does not exist
\* leaves the store unchanged: the user's presence entry in the previous
\* room and the previous room's stored userCount are the same as before the
\* request.  The next room is the id generateId has not handed out yet.
C39_FailedSwitchChangesNothing ==
  \A p \in ExistingRooms, u \in ChatUsers :
    LET out == handleSwitchRoom(Chat, p, generateId, u)
    IN  out.status = 404
          => /\ Untouched(out.c.kv, presenceKeyOf(p, u))
             /\ GET(out.c.kv, roomKeyOf(p)).userCount = RoomOf(p).userCount

-----------------------------------------------------------------------------
(* createUser requests without a password that interleave.  The handler    *)
(* runs from one await to the next; a request that has answered stays in   *)
(* inflight with pc "returned", its status and the token it handed out.    *)

SignupCalls == 1..MaxSignupCalls

\* one await of the call p: its locals, the key space after it, and the
\* token it has generated in this step, if any
SignupStep(p, locals, s, authToken) ==
  /\ inflight' = Enter(p, locals)
  /\ kv' = s
  /\ authToken # NoToken => nTokens < MaxSignupTokens
  /\ nTokens' = IF authToken # NoToken THEN nTokens + 1 ELSE nTokens
  /\ tokLog' = IF authToken # NoToken
               THEN LogIssue(tokLog, authToken, locals.username)
               ELSE tokLog
  /\ resp' = IF locals.pc = "returned"
             THEN Response("createUser", locals.status, locals.username,
                           locals.token, 0)
             ELSE NoResponse
  /\ UNCHANGED <<now, ms, nIds, presLog, sendLog, rateLog>>

\* handleCreateUser without a password: its checks of the username, and
\* redis.setnx(userKey, user); the request that did not create the key
\* answers 409
SignupStart(N) ==
  \E p \in SignupCalls, originalUsername \in N :
    LET l == [op |-> "createUser", pc |-> "arrived",
              username |-> ToLower(originalUsername), token |-> NoToken,
              during |-> Running, status |-> 0]
        w == setnx(kv, userKeyOf(l.username), UserRecord(l.username))
    IN  /\ Idle(p)
        /\ IF handleCreateUser(kv, originalUsername, NoPassword,
                               generateAuthToken).status = 400
           THEN SignupStep(p, Answer(l, 400), kv, NoToken)
           ELSE SignupStep(p, IF w.created THEN [l EXCEPT !.pc = "setLegacy"]
                                           ELSE Answer(l, 409),
                           w.s, NoToken)

\* generateAuthToken(), and redis.set(chat:token:{username}, authToken)
SignupSetLegacy ==
  \E p \in DOMAIN inflight :
    LET l == inflight[p]
    IN  /\ l.pc = "setLegacy"
        /\ SignupStep(p, [l EXCEPT !.pc = "storeUserKey",
                                   !.token = generateAuthToken],
                      SETEX(kv, getTokenKey(l.username), generateAuthToken,
                            USER_EXPIRATION_TIME),
                      generateAuthToken)

\* storeToken: redis.set of the user-scoped key
SignupStoreUserKey ==
  \E p \in DOMAIN inflight :
    LET l == inflight[p]
    IN  /\ l.pc = "storeUserKey"
        /\ SignupStep(p, [l EXCEPT !.pc = "storeMapping"],
                      SETEX(kv, getUserTokenKey(l.username, l.token),
                            CreatedAt, USER_EXPIRATION_TIME),
                      NoToken)

\* storeToken: redis.set of the token -> username mapping
SignupStoreMapping ==
  \E p \in DOMAIN inflight :
    LET l == inflight[p]
    IN  /\ l.pc = "storeMapping"
        /\ SignupStep(p, [l EXCEPT !.pc = "storeLast"],
                      SETEX(kv, getTokenKey(l.token), l.username,
                            USER_EXPIRATION_TIME),
                      NoToken)

\* storeLastValidToken, and the answer 201 with the token
SignupStoreLast ==
  \E p \in DOMAIN inflight :
    LET l == inflight[p]
    IN  /\ l.pc = "storeLast"
        /\ SignupStep(p, Answer(l, 201),
                      storeLastValidToken(kv, l.username, l.token,
                                          now + USER_EXPIRATION_TIME,
                                          USER_EXPIRATION_TIME
                                            + TOKEN_GRACE_PERIOD),
                      NoToken)

SignupNames == {"alice", "Alice", "bob", "al"}

SignupNext ==
  \/ SignupStart(SignupNames)
  \/ SignupSetLegacy
  \/ SignupStoreUserKey
  \/ SignupStoreMapping
  \/ SignupStoreLast

SpecSignup == Init /\ [][SignupNext]_vars

\* the createUser calls for the username u
SignupsOf(u) ==
  {p \in DOMAIN inflight :
     inflight[p].op = "createUser" /\ inflight[p].username = u
       /\ inflight[p].status # 400}

\* the tokens the store holds for u: in user-scoped keys, in token ->
\* username mappings, in the legacy key and in the last-token record
StoredTokensOf(u) ==
  getUserTokens(kv, u)
    \cup {t \in Tokens : EXISTS(kv, getTokenKey(t)) /\ GET(kv, getTokenKey(t)) = u}
    \cup (IF EXISTS(kv, getTokenKey(u)) THEN {GET(kv, getTokenKey(u))} ELSE {})
    \cup (IF EXISTS(kv, lastTokenKeyOf(u))
          THEN {JSON_parse(GET(kv, lastTokenKeyOf(u))).token}
          ELSE {})

\* C40: of any number of concurrent createUser requests without a password
\* for the same username that has no user record, exactly one returns
\* success with a new token and all others are rejected as username already
\* taken; exactly one user record results and only the winner's token is
\* stored.  The requests are those that have reached handleCreateUser.  At
\* no time has more than one request of a username succeeded or
\* is a token stored that is not the one handed to the request that created
\* the record; once all requests of the username have answered, one has
\* answered 201 and every other one 409.
C40_OneCreateUserWins ==
  \A u \in {ToLower(n) : n \in SignupNames} :
    LET creators == {p \in SignupsOf(u) : inflight[p].status \notin {409}}
        winners == {p \in SignupsOf(u) : inflight[p].status = 201}
    IN  /\ Cardinality(creators) <= 1
        /\ SignupsOf(u) # {} <=> EXISTS(kv, userKeyOf(u))
        /\ StoredTokensOf(u) \subseteq {inflight[p].token : p \in creators}
        /\ \A p \in winners :
             /\ inflight[p].token # NoToken
             /\ StoredTokensOf(u) = {inflight[p].token}
             /\ StrictValid(kv, u, inflight[p].token)
        /\ (SignupsOf(u) # {} /\ SignupsOf(u) \cap Running = {})
             => /\ Cardinality(winners) = 1
                /\ \A p \in SignupsOf(u) \ winners : inflight[p].status = 409

\* three requests for alice have all answered: one 201, and the others,
\* which arrived before that one had answered, 409
C40_Witness ==
  /\ Cardinality(SignupsOf("alice")) = MaxSignupCalls
  /\ Running = {}
  /\ \E w \in SignupsOf("alice") :
       /\ inflight[w].status = 201
       /\ \A p \in SignupsOf("alice") \ {w} :
            inflight[p].status = 409 /\ w \in inflight[p].during

====
